---------------------------- MODULE Spec2Model ----------------------------
(***************************************************************************)
(* A model of cozynes: the 6502 CPU core (cozynes/src/cpu.rs), the          *)
(* addressable bus (cozynes/src/bus.rs) and the cartridge it reads          *)
(* (cozynes/src/rom.rs).                                                    *)
(*                                                                          *)
(* The CPU's registers, the bus's RAM and the cartridge's PRG-ROM are the   *)
(* variables.  Every handler of Cpu::step is an operator on a record of     *)
(* the CPU's fields (the record `c`), composed in the order of the code;    *)
(* the actions commit the record an operation returns.  A panic of the      *)
(* program (a write into cartridge ROM, an opcode without a handler, an     *)
(* arithmetic overflow in a build with overflow checks) ends in a state     *)
(* with `fatal` set, from which nothing runs.                               *)
(***************************************************************************)
EXTENDS Integers, Sequences, FiniteSets, TLC

VARIABLES
    a,               \* Cpu::a, the accumulator (u8)
    x,               \* Cpu::x (u8)
    y,               \* Cpu::y (u8)
    sp,              \* Cpu::sp, the stack pointer (u8)
    status,          \* Cpu::status, the eight flags of struct Status
    pc,              \* Cpu::pc (u16)
    running,         \* Cpu::running
    cycles,          \* Cpu::cycles
    ram,             \* Bus::ram ([u8; 2048]): the cells that are not 0
    prg_rom,         \* Rom::prg_rom (Vec<u8>): its length and its bytes
    fatal,           \* "none", or why the process has aborted
    overflow_checks, \* the build: TRUE when u16 `+` panics on overflow
    pre,             \* the CPU's fields before the last operation
    log,             \* the last two operations: what was called, what it returned
    calls,           \* how many private operations have been called directly
    run_at,          \* where run_with_callback stands: "host" outside of it
    loaded           \* the last call of Rom::new: its buffer and what came of it

vars == <<a, x, y, sp, status, pc, running, cycles, ram, prg_rom, fatal,
          overflow_checks, pre, log, calls, run_at, loaded>>

---------------------------------------------------------------------------
(* Fixed-width arithmetic.                                                 *)

U8 == 256

U16 == 65536

Wrap8(v) == v % U8

Wrap16(v) == v % U16

RECURSIVE AndBits(_, _)
AndBits(p, q) ==
    IF p = 0 \/ q = 0 THEN 0
    ELSE (p % 2) * (q % 2) + 2 * AndBits(p \div 2, q \div 2)

RECURSIVE XorBits(_, _)
XorBits(p, q) ==
    IF p = 0 THEN q
    ELSE IF q = 0 THEN p
    ELSE ((p + q) % 2) + 2 * XorBits(p \div 2, q \div 2)

\* `p & q`, `p ^ q` and `p | q` on unsigned values
BitAnd(p, q) == AndBits(p, q)

BitXor(p, q) == XorBits(p, q)

BitOr(p, q) == p + q - AndBits(p, q)

\* `v << 1` and `v >> 1` on a u8: the bit shifted out is dropped
Shl8(v) == (v * 2) % U8

Shr8(v) == v \div 2

\* `v >> 7 == 1` and `v & 0x80 != 0`
Bit7(v) == (v \div 128) % 2 = 1

\* `v as i8`, and an i8 `as u8` / `as u16` (sign-extending)
\* a conversion that takes the byte for unsigned
AsI8Unsigned(v) == v

AsI8(v) == IF v >= 128 THEN v - 256 ELSE v

I8AsU8(s) == s % U8

I8AsU16(s) == s % U16

\* i8::wrapping_neg and i8::wrapping_sub: the result wraps into -128..127
WrapI8(s) == ((s + 128) % U8) - 128

I8WrappingNeg(s) == WrapI8(0 - s)

I8WrappingSub(s, k) == WrapI8(s - k)

---------------------------------------------------------------------------
(* struct Status and its conversions.                                      *)

StatusFromU8(v) ==
    [carry              |-> BitAnd(v, 1) # 0,
     zero               |-> BitAnd(v, 2) # 0,
     disable_interrupts |-> BitAnd(v, 4) # 0,
     decimal            |-> BitAnd(v, 8) # 0,
     b1                 |-> BitAnd(v, 16) # 0,
     b2                 |-> BitAnd(v, 32) # 0,
     overflow           |-> BitAnd(v, 64) # 0,
     negative           |-> BitAnd(v, 128) # 0]

BoolAsU8(b) == IF b THEN 1 ELSE 0

\* a packing that has b1 and b2 in each other's place
StatusToU8_b_swapped(s) ==
    BoolAsU8(s.carry) + BoolAsU8(s.zero) * 2
        + BoolAsU8(s.disable_interrupts) * 4 + BoolAsU8(s.decimal) * 8
        + BoolAsU8(s.b1) * 32 + BoolAsU8(s.b2) * 16
        + BoolAsU8(s.overflow) * 64 + BoolAsU8(s.negative) * 128

StatusToU8(s) ==
    LET r0 == 0
        r1 == BitOr(r0, BoolAsU8(s.carry))
        r2 == BitOr(r1, BoolAsU8(s.zero) * 2)
        r3 == BitOr(r2, BoolAsU8(s.disable_interrupts) * 4)
        r4 == BitOr(r3, BoolAsU8(s.decimal) * 8)
        r5 == BitOr(r4, BoolAsU8(s.b1) * 16)
        r6 == BitOr(r5, BoolAsU8(s.b2) * 32)
        r7 == BitOr(r6, BoolAsU8(s.overflow) * 64)
    IN  BitOr(r7, BoolAsU8(s.negative) * 128)

---------------------------------------------------------------------------
(* The cartridge's PRG-ROM and the bus.                                    *)

PRG_ROM_PAGE_SIZE == 16384

RAM_MIRRORS_END == 8191

PPU_REGISTERS_MIRRORS_END == 16383

PRG_WINDOW == 32768

\* Bus::ram starts as [0; 2048]; the variable holds the cells that are not 0.
EmptyRam == [i \in {} |-> 0]

RamAt(r, i) == IF i \in DOMAIN r THEN r[i] ELSE 0

RamSet(r, i, v) ==
    LET D == (DOMAIN r \ {i}) \cup (IF v = 0 THEN {} ELSE {i})
    IN  [j \in D |-> IF j = i THEN v ELSE r[j]]

\* prg_rom[i] of a Vec of prg_rom.len bytes, all 0 but those of prg_rom.data
PrgAt(rom, i) == IF i \in DOMAIN rom.data THEN rom.data[i] ELSE 0

\* a bus that mirrors every cartridge, whatever its size
PrgIndexAlwaysMirrored(rom, addr) == (addr - PRG_WINDOW) % PRG_ROM_PAGE_SIZE

\* the index Bus::read_byte takes from prg_rom for an address in 0x8000..=0xFFFF
PrgIndex(rom, addr) ==
    LET off == addr - PRG_WINDOW
    IN  IF rom.len = PRG_ROM_PAGE_SIZE /\ off >= PRG_ROM_PAGE_SIZE
        THEN off % PRG_ROM_PAGE_SIZE
        ELSE off

\* whether read_byte(addr) returns: indexing prg_rom out of bounds panics
ReadInBounds(rom, addr) == addr < PRG_WINDOW \/ PrgIndex(rom, addr) < rom.len

\* a bus on which the PPU window and the unmapped range mirror the RAM too
BusReadMirroringAll(r, rom, addr) ==
    IF addr < PRG_WINDOW THEN RamAt(r, BitAnd(addr, 2047))
    ELSE PrgAt(rom, PrgIndex(rom, addr))

BusRead(r, rom, addr) ==
    IF addr <= RAM_MIRRORS_END THEN RamAt(r, BitAnd(addr, 2047))
    ELSE IF addr <= PPU_REGISTERS_MIRRORS_END THEN 0
    ELSE IF addr >= PRG_WINDOW THEN PrgAt(rom, PrgIndex(rom, addr))
    ELSE 0

\* Mem::read_byte for Cpu: a passthrough to the bus
read_byte(c, addr) == BusRead(c.ram, prg_rom, addr)

\* the program panics: the first panic is the one that aborts it
Panic(c, why) == IF c.fatal = "none" THEN [c EXCEPT !.fatal = why] ELSE c

\* a bus whose RAM mirrors every 0x400 bytes
write_byte_narrow_mask(c, addr, value) ==
    IF addr <= RAM_MIRRORS_END
    THEN [c EXCEPT !.ram = RamSet(c.ram, BitAnd(addr, 1023), value)]
    ELSE IF addr <= PPU_REGISTERS_MIRRORS_END THEN c
    ELSE IF addr >= PRG_WINDOW THEN Panic(c, "rom_write")
    ELSE c

\* a bus that ignores a write into the cartridge
write_byte_ignoring_rom(c, addr, value) ==
    IF addr <= RAM_MIRRORS_END
    THEN [c EXCEPT !.ram = RamSet(c.ram, BitAnd(addr, 2047), value)]
    ELSE c

write_byte(c, addr, value) ==
    IF addr <= RAM_MIRRORS_END
    THEN [c EXCEPT !.ram = RamSet(c.ram, BitAnd(addr, 2047), value)]
    ELSE IF addr <= PPU_REGISTERS_MIRRORS_END THEN c
    ELSE IF addr >= PRG_WINDOW THEN Panic(c, "rom_write")
    ELSE c

\* Mem::read_word: two read_byte calls, the low byte first
read_word(c, addr) ==
    LET lo == read_byte(c, addr)
        hi == read_byte(c, Wrap16(addr + 1))
    IN  hi * 256 + lo

---------------------------------------------------------------------------
(* The opcode table INSTRUCTIONS: each opcode's addressing mode, length    *)
(* in bytes and base cycle count.                                          *)

ImmediateOps ==
    {\h69, \hE9, \hEB, \hA9, \hA2, \hA0, \h29, \h09, \h49, \hC9, \hE0, \hC0,
     \h80, \h82, \h89, \hC2, \hE2}

ZeroPageOps ==
    {\h65, \hE5, \h46, \h06, \h66, \h26, \h07, \h27, \h47, \h67, \h24, \hA5,
     \hA6, \hA4, \hA7, \h87, \h85, \h86, \h84, \hE6, \hC6, \hE7, \h25, \h05,
     \h45, \hC5, \hC7, \hE4, \hC4, \h04, \h44, \h64}

ZeroPageXOps ==
    {\h75, \hF5, \h56, \h16, \h76, \h36, \h17, \h37, \h57, \h77, \hB5, \hB4,
     \h95, \h94, \hF6, \hD6, \hF7, \h35, \h15, \h55, \hD5, \hD7,
     \h14, \h34, \h54, \h74, \hD4, \hF4}

ZeroPageYOps == {\hB6, \h96, \hB7, \h97}

AbsoluteOps ==
    {\h6D, \hED, \h4E, \h0E, \h6E, \h2E, \h0F, \h2F, \h4F, \h6F, \h2C, \hAD,
     \hAE, \hAC, \hAF, \h8F, \h8D, \h8E, \h8C, \hEE, \hCE, \hEF, \h2D, \h0D,
     \h4D, \hCD, \hCF, \hEC, \hCC, \h4C, \h20, \h0C}

AbsoluteXOps ==
    {\h7D, \hFD, \h5E, \h1E, \h7E, \h3E, \h1F, \h3F, \h5F, \h7F, \hBD, \hBC,
     \h9D, \hFE, \hDE, \hFF, \h3D, \h1D, \h5D, \hDD, \hDF,
     \h1C, \h3C, \h5C, \h7C, \hDC, \hFC}

AbsoluteYOps ==
    {\h79, \hF9, \h1B, \h3B, \h5B, \h7B, \hB9, \hBE, \hBF, \h99, \hFB, \h39,
     \h19, \h59, \hD9, \hDB}

IndirectOps == {\h6C}

IndirectXOps ==
    {\h61, \hE1, \h03, \h23, \h43, \h63, \hA1, \hA3, \h83, \h81, \hE3, \h21,
     \h01, \h41, \hC1, \hC3}

IndirectYOps ==
    {\h71, \hF1, \h13, \h33, \h53, \h73, \hB1, \hB3, \h91, \hF3, \h31, \h11,
     \h51, \hD1, \hD3}

RelativeOps == {\hB0, \h90, \hF0, \hD0, \h30, \h10, \h70, \h50}

\* INSTRUCTIONS[opcode].mode
InsMode(opcode) ==
    CASE opcode \in ImmediateOps -> "Immediate"
      [] opcode \in ZeroPageOps  -> "ZeroPage"
      [] opcode \in ZeroPageXOps -> "ZeroPageX"
      [] opcode \in ZeroPageYOps -> "ZeroPageY"
      [] opcode \in AbsoluteOps  -> "Absolute"
      [] opcode \in AbsoluteXOps -> "AbsoluteX"
      [] opcode \in AbsoluteYOps -> "AbsoluteY"
      [] opcode \in IndirectOps  -> "Indirect"
      [] opcode \in IndirectXOps -> "IndirectX"
      [] opcode \in IndirectYOps -> "IndirectY"
      [] opcode \in RelativeOps  -> "Relative"
      [] OTHER                   -> "None"

\* INSTRUCTIONS[opcode].bytes as u16: the instruction's length
InsBytes(opcode) ==
    CASE InsMode(opcode) \in {"Absolute", "AbsoluteX", "AbsoluteY", "Indirect"} -> 3
      [] InsMode(opcode) = "None" -> 1
      [] OTHER -> 2

\* the opcodes that write their operand (stores) and that read, change and
\* write it back
StoreOps ==
    {\h85, \h95, \h8D, \h9D, \h99, \h81, \h91, \h86, \h96, \h8E, \h84, \h94,
     \h8C, \h87, \h97, \h8F, \h83}

ModifyOps ==
    {\h46, \h56, \h4E, \h5E, \h06, \h16, \h0E, \h1E, \h66, \h76, \h6E, \h7E,
     \h26, \h36, \h2E, \h3E, \hE6, \hF6, \hEE, \hFE, \hC6, \hD6, \hCE, \hDE,
     \h07, \h17, \h0F, \h1F, \h1B, \h03, \h13, \h27, \h37, \h2F, \h3F, \h3B,
     \h33, \h23, \h47, \h57, \h4F, \h5F, \h5B, \h43, \h53, \h67, \h77, \h6F,
     \h7F, \h7B, \h63, \h73, \hE7, \hF7, \hEF, \hFF, \hFB, \hE3, \hF3, \hC7,
     \hD7, \hCF, \hDF, \hDB, \hD3, \hC3}

\* INSTRUCTIONS[opcode].cycles: the base cycle count
InsCycles(opcode) ==
    CASE opcode = \h00 -> 7
      [] opcode \in {\h20, \h40, \h60} -> 6
      [] opcode = \h4C -> 3
      [] opcode = \h6C -> 5
      [] opcode \in {\h48, \h08} -> 3
      [] opcode \in {\h68, \h28} -> 4
      [] opcode \in ModifyOps ->
            (CASE InsMode(opcode) = "ZeroPage" -> 5
               [] InsMode(opcode) \in {"ZeroPageX", "Absolute"} -> 6
               [] InsMode(opcode) \in {"AbsoluteX", "AbsoluteY"} -> 7
               [] OTHER -> 8)
      [] opcode \in StoreOps ->
            (CASE InsMode(opcode) = "ZeroPage" -> 3
               [] InsMode(opcode) \in {"ZeroPageX", "ZeroPageY", "Absolute"} -> 4
               [] InsMode(opcode) \in {"AbsoluteX", "AbsoluteY"} -> 5
               [] OTHER -> 6)
      [] OTHER ->
            (CASE InsMode(opcode) \in {"None", "Immediate", "Relative"} -> 2
               [] InsMode(opcode) = "ZeroPage" -> 3
               [] InsMode(opcode) = "IndirectX" -> 6
               [] InsMode(opcode) = "IndirectY" -> 5
               [] OTHER -> 4)

---------------------------------------------------------------------------
(* The CPU core: registers, flags, addressing modes, the stack.            *)

STACK == \h0100

update_zero_and_negative(c, value) ==
    [c EXCEPT !.status.zero = (value = 0),
              !.status.negative = (value \div 128 = 1)]

update_negative(c, value) ==
    [c EXCEPT !.status.negative = (value \div 128 = 1)]

get_register(c, register) ==
    CASE register = "A" -> c.a
      [] register = "X" -> c.x
      [] register = "Y" -> c.y
      [] register = "S" -> c.sp

set_register(c, register, value) ==
    CASE register = "A" -> [c EXCEPT !.a = value]
      [] register = "X" -> [c EXCEPT !.x = value]
      [] register = "Y" -> [c EXCEPT !.y = value]
      [] register = "S" -> [c EXCEPT !.sp = value]

\* a resolution that reads the high byte after the pointer, across the page
IndirectTargetNextPage(c, mem_address) == read_word(c, mem_address)

\* the Indirect arm of get_operand_address, for the pointer word read at pc
IndirectTarget(c, mem_address) ==
    IF BitAnd(mem_address, \h00FF) = \h00FF
    THEN LET lo == read_byte(c, mem_address)
             hi == read_byte(c, BitAnd(mem_address, \hFF00))
         IN  BitOr(hi * 256, lo)
    ELSE read_word(c, mem_address)

\* a resolver whose zero-page pointers run on into page 1
get_operand_address_pointer_unwrapped(c, mode, at) ==
    CASE mode = "Immediate" -> at
      [] mode = "ZeroPage"  -> read_byte(c, at)
      [] mode = "ZeroPageX" -> Wrap8(read_byte(c, at) + c.x)
      [] mode = "ZeroPageY" -> Wrap8(read_byte(c, at) + c.y)
      [] mode = "Absolute"  -> read_word(c, at)
      [] mode = "AbsoluteX" -> Wrap16(read_word(c, at) + c.x)
      [] mode = "AbsoluteY" -> Wrap16(read_word(c, at) + c.y)
      [] mode = "Indirect"  -> IndirectTarget(c, read_word(c, at))
      [] mode = "IndirectX" ->
            LET base == read_byte(c, at)
                ptr  == Wrap8(base + c.x)
                lo   == read_byte(c, ptr)
                hi   == read_byte(c, ptr + 1)
            IN  BitOr(hi * 256, lo)
      [] mode = "IndirectY" ->
            LET base == read_byte(c, at)
                lo   == read_byte(c, base)
                hi   == read_byte(c, base + 1)
                ptr  == BitOr(hi * 256, lo)
            IN  Wrap16(ptr + c.y)
      [] mode = "Relative"  ->
            LET offset == AsI8(read_byte(c, at))
            IN  Wrap16(at + I8AsU16(offset))

get_operand_address(c, mode, at) ==
    CASE mode = "Immediate" -> at
      [] mode = "ZeroPage"  -> read_byte(c, at)
      [] mode = "ZeroPageX" -> Wrap8(read_byte(c, at) + c.x)
      [] mode = "ZeroPageY" -> Wrap8(read_byte(c, at) + c.y)
      [] mode = "Absolute"  -> read_word(c, at)
      [] mode = "AbsoluteX" -> Wrap16(read_word(c, at) + c.x)
      [] mode = "AbsoluteY" -> Wrap16(read_word(c, at) + c.y)
      [] mode = "Indirect"  -> IndirectTarget(c, read_word(c, at))
      [] mode = "IndirectX" ->
            LET base == read_byte(c, at)
                ptr  == Wrap8(base + c.x)
                lo   == read_byte(c, ptr)
                hi   == read_byte(c, Wrap8(ptr + 1))
            IN  BitOr(hi * 256, lo)
      [] mode = "IndirectY" ->
            LET base == read_byte(c, at)
                lo   == read_byte(c, base)
                hi   == read_byte(c, Wrap8(base + 1))
                ptr  == BitOr(hi * 256, lo)
            IN  Wrap16(ptr + c.y)
      [] mode = "Relative"  ->
            LET offset == AsI8(read_byte(c, at))
            IN  Wrap16(at + I8AsU16(offset))

\* `self.pc += k`: a u16 addition, which panics on overflow when the build
\* checks it and wraps when it does not
AddPc(c, k) ==
    IF c.pc + k >= U16 /\ overflow_checks
    THEN Panic(c, "overflow")
    ELSE [c EXCEPT !.pc = Wrap16(c.pc + k)]

\* a push that moves SP before it writes
push_byte_decrement_first(c, value) ==
    LET s == Wrap8(c.sp + U8 - 1)
        w == write_byte(c, STACK + s, value)
    IN  [w EXCEPT !.sp = s]

push_byte(c, value) ==
    LET w == write_byte(c, STACK + c.sp, value)
    IN  [w EXCEPT !.sp = Wrap8(c.sp + U8 - 1)]

\* pop_byte, pop_word and the read-modify-write handlers return a value
\* beside the CPU they leave: [cpu |-> ..., value |-> ...]
pop_byte(c) ==
    LET s == Wrap8(c.sp + 1)
        n == [c EXCEPT !.sp = s]
    IN  [cpu |-> n, value |-> read_byte(n, STACK + s)]

push_word(c, value) ==
    LET hi == value \div 256
        lo == BitAnd(value, \hFF)
    IN  push_byte(push_byte(c, hi), lo)

pop_word(c) ==
    LET lo == pop_byte(c)
        hi == pop_byte(lo.cpu)
    IN  [cpu |-> hi.cpu, value |-> BitOr(hi.value * 256, lo.value)]

---------------------------------------------------------------------------
(* The instruction handlers, each with the operand cursor c.pc.            *)

load(c, register, mode) ==
    LET addr  == get_operand_address(c, mode, c.pc)
        value == read_byte(c, addr)
    IN  update_zero_and_negative(set_register(c, register, value), value)

transfer(c, src, dst) ==
    LET value == get_register(c, src)
        n     == set_register(c, dst, value)
    IN  IF dst # "S" THEN update_zero_and_negative(n, value) ELSE n

increment_register(c, register) ==
    LET value == Wrap8(get_register(c, register) + 1)
    IN  update_zero_and_negative(set_register(c, register, value), value)

decrement_register(c, register) ==
    LET value == Wrap8(get_register(c, register) + U8 - 1)
    IN  update_zero_and_negative(set_register(c, register, value), value)

increment_memory(c, mode) ==
    LET addr  == get_operand_address(c, mode, c.pc)
        value == Wrap8(read_byte(c, addr) + 1)
    IN  [cpu   |-> update_zero_and_negative(write_byte(c, addr, value), value),
         value |-> value]

decrement_memory(c, mode) ==
    LET addr  == get_operand_address(c, mode, c.pc)
        value == Wrap8(read_byte(c, addr) + U8 - 1)
    IN  update_zero_and_negative(write_byte(c, addr, value), value)

and(c, mode) ==
    LET addr  == get_operand_address(c, mode, c.pc)
        value == read_byte(c, addr)
        r     == BitAnd(c.a, value)
    IN  update_zero_and_negative([c EXCEPT !.a = r], r)

ora(c, mode) ==
    LET addr  == get_operand_address(c, mode, c.pc)
        value == read_byte(c, addr)
        r     == BitOr(c.a, value)
    IN  update_zero_and_negative([c EXCEPT !.a = r], r)

eor(c, mode) ==
    LET addr  == get_operand_address(c, mode, c.pc)
        value == read_byte(c, addr)
        r     == BitXor(c.a, value)
    IN  update_zero_and_negative([c EXCEPT !.a = r], r)

compare(c, register, mode) ==
    LET addr           == get_operand_address(c, mode, c.pc)
        value          == read_byte(c, addr)
        register_value == get_register(c, register)
    IN  update_zero_and_negative(
            [c EXCEPT !.status.carry = (value <= register_value)],
            Wrap8(register_value + U8 - value))

store(c, register, mode) ==
    LET addr  == get_operand_address(c, mode, c.pc)
        value == get_register(c, register)
    IN  write_byte(c, addr, value)

bit(c, mode) ==
    LET addr  == get_operand_address(c, mode, c.pc)
        value == read_byte(c, addr)
    IN  [c EXCEPT !.status.zero     = (BitAnd(value, c.a) = 0),
                  !.status.negative = (BitAnd(value, \h80) # 0),
                  !.status.overflow = (BitAnd(value, \h40) # 0)]

\* the flag a BranchCondition tests
ConditionMet(c, condition) ==
    CASE condition = "CarrySet"      -> c.status.carry
      [] condition = "CarryClear"    -> ~c.status.carry
      [] condition = "ZeroSet"       -> c.status.zero
      [] condition = "ZeroClear"     -> ~c.status.zero
      [] condition = "MinusSet"      -> c.status.negative
      [] condition = "MinusClear"    -> ~c.status.negative
      [] condition = "OverflowSet"   -> c.status.overflow
      [] condition = "OverflowClear" -> ~c.status.overflow

branch(c, condition, mode) ==
    LET taken == IF ConditionMet(c, condition)
                 THEN [c EXCEPT !.pc = get_operand_address(c, mode, c.pc)]
                 ELSE c
    IN  AddPc(taken, 1)

jsr(c, mode) ==
    LET addr == get_operand_address(c, mode, c.pc)
        n    == push_word(c, Wrap16(c.pc + 1))
    IN  [n EXCEPT !.pc = addr]

rts(c) ==
    LET p == pop_word(c)
    IN  [p.cpu EXCEPT !.pc = Wrap16(p.value + 1)]

\* an adder that drops the carry-in
add_to_a_without_carry_in(c, value) ==
    LET wide == c.a + value
        sum  == Wrap8(wide)
        n    == [c EXCEPT
                   !.status.carry = (wide > \hFF),
                   !.status.overflow =
                       (BitAnd(BitAnd(BitXor(value, sum), BitXor(sum, c.a)), \h80) # 0),
                   !.a = sum]
    IN  update_zero_and_negative(n, sum)

add_to_a(c, value) ==
    LET carry == IF c.status.carry THEN 1 ELSE 0
        wide  == c.a + value + carry
        sum   == Wrap8(wide)
        n     == [c EXCEPT
                    !.status.carry = (wide > \hFF),
                    !.status.overflow =
                        (BitAnd(BitAnd(BitXor(value, sum), BitXor(sum, c.a)), \h80) # 0),
                    !.a = sum]
    IN  update_zero_and_negative(n, sum)

adc(c, mode) ==
    LET addr  == get_operand_address(c, mode, c.pc)
        value == read_byte(c, addr)
    IN  add_to_a(c, value)

\* the two's complement of the operand, without the `wrapping_sub(1)`
NegOnly(value) == I8AsU8(I8WrappingNeg(AsI8(value)))

\* `((value as i8).wrapping_neg().wrapping_sub(1)) as u8`
NegMinusOne(value) == I8AsU8(I8WrappingSub(I8WrappingNeg(AsI8(value)), 1))

sbc(c, mode) ==
    LET addr  == get_operand_address(c, mode, c.pc)
        value == read_byte(c, addr)
    IN  add_to_a(c, NegMinusOne(value))

jmp(c, mode) == [c EXCEPT !.pc = get_operand_address(c, mode, c.pc)]

lsr(c, mode) ==
    LET addr  == get_operand_address(c, mode, c.pc)
        value == read_byte(c, addr)
        n     == [c EXCEPT !.status.carry = (BitAnd(value, 1) = 1)]
        r     == Shr8(value)
    IN  [cpu |-> update_zero_and_negative(write_byte(n, addr, r), r), value |-> r]

lsr_a(c) ==
    LET n == [c EXCEPT !.status.carry = (BitAnd(c.a, 1) = 1), !.a = Shr8(c.a)]
    IN  update_zero_and_negative(n, n.a)

\* a PHP that pushes the status byte as it is
php_pushing_own_bits(c) == push_byte(c, StatusToU8(c.status))

php(c) ==
    LET pushed == [c.status EXCEPT !.b1 = TRUE, !.b2 = TRUE]
    IN  push_byte(c, StatusToU8(pushed))

plp(c) ==
    LET p == pop_byte(c)
    IN  [p.cpu EXCEPT !.status =
            [StatusFromU8(p.value) EXCEPT !.b1 = FALSE, !.b2 = TRUE]]

pha(c) == push_byte(c, c.a)

pla(c) ==
    LET p == pop_byte(c)
    IN  update_zero_and_negative([p.cpu EXCEPT !.a = p.value], p.value)

rti(c) ==
    LET p == pop_byte(c)
        n == [p.cpu EXCEPT !.status =
                [StatusFromU8(p.value) EXCEPT !.b1 = FALSE, !.b2 = TRUE]]
        w == pop_word(n)
    IN  [w.cpu EXCEPT !.pc = w.value]

asl_a(c) ==
    LET n == [c EXCEPT !.status.carry = (c.a \div 128 = 1), !.a = Shl8(c.a)]
    IN  update_zero_and_negative(n, n.a)

asl(c, mode) ==
    LET addr  == get_operand_address(c, mode, c.pc)
        value == read_byte(c, addr)
        n     == [c EXCEPT !.status.carry = (value \div 128 = 1)]
        r     == Shl8(value)
    IN  [cpu |-> update_zero_and_negative(write_byte(n, addr, r), r), value |-> r]

ror_a(c) ==
    LET carry == IF c.status.carry THEN 1 ELSE 0
        r     == BitOr(carry * 128, Shr8(c.a))
        n     == [c EXCEPT !.status.carry = (BitAnd(c.a, 1) = 1), !.a = r]
    IN  update_zero_and_negative(n, r)

ror(c, mode) ==
    LET addr  == get_operand_address(c, mode, c.pc)
        value == read_byte(c, addr)
        carry == IF c.status.carry THEN 1 ELSE 0
        n     == [c EXCEPT !.status.carry = (BitAnd(value, 1) = 1)]
        r     == BitOr(carry * 128, Shr8(value))
    IN  [cpu |-> update_negative(write_byte(n, addr, r), r), value |-> r]

rol_a(c) ==
    LET carry == IF c.status.carry THEN 1 ELSE 0
        r     == BitOr(Shl8(c.a), carry)
        n     == [c EXCEPT !.status.carry = (c.a \div 128 = 1), !.a = r]
    IN  update_zero_and_negative(n, r)

rol(c, mode) ==
    LET addr  == get_operand_address(c, mode, c.pc)
        value == read_byte(c, addr)
        carry == IF c.status.carry THEN 1 ELSE 0
        n     == [c EXCEPT !.status.carry = (value \div 128 = 1)]
        r     == BitOr(Shl8(value), carry)
    IN  [cpu |-> update_negative(write_byte(n, addr, r), r), value |-> r]

lax(c, mode) ==
    LET addr  == get_operand_address(c, mode, c.pc)
        value == read_byte(c, addr)
    IN  update_zero_and_negative([c EXCEPT !.a = value, !.x = value], value)

sax(c, mode) ==
    LET value == BitAnd(c.a, c.x)
        addr  == get_operand_address(c, mode, c.pc)
    IN  write_byte(c, addr, value)

dcp(c, mode) ==
    LET addr  == get_operand_address(c, mode, c.pc)
        value == Wrap8(read_byte(c, addr) + U8 - 1)
        w     == write_byte(c, addr, value)
    IN  update_zero_and_negative(
            [w EXCEPT !.status.carry = (value <= c.a)],
            Wrap8(c.a + U8 - value))

isb(c, mode) ==
    LET m == increment_memory(c, mode)
    IN  add_to_a(m.cpu, NegMinusOne(m.value))

slo(c, mode) ==
    LET m == asl(c, mode)
        r == BitOr(c.a, m.value)
    IN  update_zero_and_negative([m.cpu EXCEPT !.a = r], r)

rla(c, mode) ==
    LET m == rol(c, mode)
        r == BitAnd(c.a, m.value)
    IN  update_zero_and_negative([m.cpu EXCEPT !.a = r], r)

sre(c, mode) ==
    LET m == lsr(c, mode)
        r == BitXor(c.a, m.value)
    IN  update_zero_and_negative([m.cpu EXCEPT !.a = r], r)

\* an RRA that adds with the carry from before the rotation
rra_with_stale_carry(c, mode) ==
    LET m == ror(c, mode)
    IN  add_to_a([m.cpu EXCEPT !.status.carry = c.status.carry], m.value)

rra(c, mode) ==
    LET m == ror(c, mode)
    IN  add_to_a(m.cpu, m.value)

---------------------------------------------------------------------------
(* Cpu::step: fetch, the opcode match, and the advance past the operands.  *)

\* only the documented NOP
NopOpsOfficialOnly == {\hEA}

NopOps ==
    {\hEA,
     \h1A, \h3A, \h5A, \h7A, \hDA, \hFA, \h80, \h82, \h89, \hC2, \hE2, \h04,
     \h44, \h64, \h14, \h34, \h54, \h74, \hD4, \hF4, \h0C, \h1C, \h3C, \h5C,
     \h7C, \hDC, \hFC}

BranchConditionOf(opcode) ==
    CASE opcode = \hB0 -> "CarrySet"
      [] opcode = \h90 -> "CarryClear"
      [] opcode = \hF0 -> "ZeroSet"
      [] opcode = \hD0 -> "ZeroClear"
      [] opcode = \h30 -> "MinusSet"
      [] opcode = \h10 -> "MinusClear"
      [] opcode = \h70 -> "OverflowSet"
      [] opcode = \h50 -> "OverflowClear"

\* the arms of `match opcode`, in the order of the source
Dispatch(c, opcode) ==
    LET mode == InsMode(opcode)
    IN  CASE opcode \in NopOps -> c
          [] opcode \in {\h69, \h65, \h75, \h6D, \h7D, \h79, \h61, \h71} -> adc(c, mode)
          [] opcode \in {\hE9, \hE5, \hF5, \hED, \hFD, \hF9, \hE1, \hF1, \hEB} -> sbc(c, mode)
          [] opcode = \h4A -> lsr_a(c)
          [] opcode \in {\h46, \h56, \h4E, \h5E} -> lsr(c, mode).cpu
          [] opcode \in {\h4C, \h6C} -> jmp(c, mode)
          [] opcode = \h20 -> jsr(c, mode)
          [] opcode = \h40 -> rti(c)
          [] opcode = \h60 -> rts(c)
          [] opcode \in RelativeOps -> branch(c, BranchConditionOf(opcode), mode)
          [] opcode = \h0A -> asl_a(c)
          [] opcode \in {\h06, \h16, \h0E, \h1E} -> asl(c, mode).cpu
          [] opcode = \h6A -> ror_a(c)
          [] opcode \in {\h66, \h76, \h6E, \h7E} -> ror(c, mode).cpu
          [] opcode = \h2A -> rol_a(c)
          [] opcode \in {\h26, \h36, \h2E, \h3E} -> rol(c, mode).cpu
          [] opcode \in {\h07, \h17, \h0F, \h1F, \h1B, \h03, \h13} -> slo(c, mode)
          [] opcode \in {\h27, \h37, \h2F, \h3F, \h3B, \h33, \h23} -> rla(c, mode)
          [] opcode \in {\h47, \h57, \h4F, \h5F, \h5B, \h43, \h53} -> sre(c, mode)
          [] opcode \in {\h67, \h77, \h6F, \h7F, \h7B, \h63, \h73} -> rra(c, mode)
          [] opcode \in {\h24, \h2C} -> bit(c, mode)
          [] opcode = \h18 -> [c EXCEPT !.status.carry = FALSE]
          [] opcode = \h38 -> [c EXCEPT !.status.carry = TRUE]
          [] opcode = \h58 -> [c EXCEPT !.status.disable_interrupts = FALSE]
          [] opcode = \h78 -> [c EXCEPT !.status.disable_interrupts = TRUE]
          [] opcode = \hB8 -> [c EXCEPT !.status.overflow = FALSE]
          [] opcode = \hD8 -> [c EXCEPT !.status.decimal = FALSE]
          [] opcode = \hF8 -> [c EXCEPT !.status.decimal = TRUE]
          [] opcode \in {\hA9, \hA5, \hB5, \hAD, \hBD, \hB9, \hA1, \hB1} -> load(c, "A", mode)
          [] opcode = \h08 -> php(c)
          [] opcode = \h28 -> plp(c)
          [] opcode = \h48 -> pha(c)
          [] opcode = \h68 -> pla(c)
          [] opcode \in {\hA2, \hA6, \hB6, \hAE, \hBE} -> load(c, "X", mode)
          [] opcode \in {\hA0, \hA4, \hB4, \hAC, \hBC} -> load(c, "Y", mode)
          [] opcode \in {\hA7, \hB7, \hAF, \hBF, \hA3, \hB3} -> lax(c, mode)
          [] opcode \in {\h87, \h97, \h8F, \h83} -> sax(c, mode)
          [] opcode = \hAA -> transfer(c, "A", "X")
          [] opcode = \h8A -> transfer(c, "X", "A")
          [] opcode = \hA8 -> transfer(c, "A", "Y")
          [] opcode = \h98 -> transfer(c, "Y", "A")
          [] opcode = \h9A -> transfer(c, "X", "S")
          [] opcode = \hBA -> transfer(c, "S", "X")
          [] opcode \in {\h85, \h95, \h8D, \h9D, \h99, \h81, \h91} -> store(c, "A", mode)
          [] opcode \in {\h86, \h96, \h8E} -> store(c, "X", mode)
          [] opcode \in {\h84, \h94, \h8C} -> store(c, "Y", mode)
          [] opcode = \hE8 -> increment_register(c, "X")
          [] opcode = \hC8 -> increment_register(c, "Y")
          [] opcode = \hCA -> decrement_register(c, "X")
          [] opcode = \h88 -> decrement_register(c, "Y")
          [] opcode \in {\hE6, \hF6, \hEE, \hFE} -> increment_memory(c, mode).cpu
          [] opcode \in {\hC6, \hD6, \hCE, \hDE} -> decrement_memory(c, mode)
          [] opcode \in {\hE7, \hF7, \hEF, \hFF, \hFB, \hE3, \hF3} -> isb(c, mode)
          [] opcode \in {\h29, \h25, \h35, \h2D, \h3D, \h39, \h21, \h31} -> and(c, mode)
          [] opcode \in {\h09, \h05, \h15, \h0D, \h1D, \h19, \h01, \h11} -> ora(c, mode)
          [] opcode \in {\h49, \h45, \h55, \h4D, \h5D, \h59, \h41, \h51} -> eor(c, mode)
          [] opcode \in {\hC9, \hC5, \hD5, \hCD, \hDD, \hD9, \hC1, \hD1} -> compare(c, "A", mode)
          [] opcode \in {\hC7, \hD7, \hCF, \hDF, \hDB, \hD3, \hC3} -> dcp(c, mode)
          [] opcode \in {\hE0, \hE4, \hEC} -> compare(c, "X", mode)
          [] opcode \in {\hC0, \hC4, \hCC} -> compare(c, "Y", mode)
          [] OTHER -> Panic(c, "unimplemented")

\* `if pc == self.pc { self.pc += (ins.bytes as u16) - 1; }` where `pc` is the
\* cursor step() took before the handler ran
\* a step that skips the whole length again, the opcode byte included
AdvancePcWholeLength(c, cursor, opcode) ==
    IF cursor = c.pc THEN AddPc(c, InsBytes(opcode)) ELSE c

AdvancePc(c, cursor, opcode) ==
    IF cursor = c.pc THEN AddPc(c, InsBytes(opcode) - 1) ELSE c

\* a step whose BRK arm leaves the running flag as it is
step_without_stop(c) ==
    LET opcode == read_byte(c, c.pc)
        cursor == Wrap16(c.pc + 1)
        c1     == AddPc(c, 1)
        c2     == [c1 EXCEPT !.cycles = c.cycles + InsCycles(opcode)]
    IN  IF opcode = \h00
        THEN [c2 EXCEPT !.status.b1 = TRUE]
        ELSE AdvancePc(Dispatch(c2, opcode), cursor, opcode)

\* a step whose BRK arm returns before the cycles are counted
step_brk_uncounted(c) ==
    LET opcode == read_byte(c, c.pc)
        cursor == Wrap16(c.pc + 1)
        c1     == AddPc(c, 1)
        c2     == [c1 EXCEPT !.cycles = c.cycles + InsCycles(opcode)]
    IN  IF opcode = \h00
        THEN [c1 EXCEPT !.status.b1 = TRUE, !.running = FALSE]
        ELSE AdvancePc(Dispatch(c2, opcode), cursor, opcode)

step(c) ==
    LET opcode == read_byte(c, c.pc)
        cursor == Wrap16(c.pc + 1)
        c1     == AddPc(c, 1)
        c2     == [c1 EXCEPT !.cycles = c.cycles + InsCycles(opcode)]
    IN  IF opcode = \h00
        THEN [c2 EXCEPT !.status.b1 = TRUE, !.running = FALSE]
        ELSE AdvancePc(Dispatch(c2, opcode), cursor, opcode)

\* the vector reset() loads PC from
RESET_VECTOR == \hFFFC

\* a reset that takes the IRQ vector for the reset vector
reset_from_irq_vector(c) ==
    [c EXCEPT !.a = 0, !.x = 0, !.y = 0, !.sp = \hFD,
              !.status = StatusFromU8(36),
              !.pc = read_word(c, \hFFFE),
              !.cycles = 0]

\* a reset that also restarts a stopped CPU
reset_restarting(c) ==
    IF ~(ReadInBounds(prg_rom, RESET_VECTOR) /\ ReadInBounds(prg_rom, RESET_VECTOR + 1))
    THEN Panic(c, "rom_index")
    ELSE [c EXCEPT !.a = 0, !.x = 0, !.y = 0, !.sp = \hFD,
                   !.status = StatusFromU8(36),
                   !.pc = read_word(c, RESET_VECTOR),
                   !.cycles = 0,
                   !.running = TRUE]

reset(c) ==
    IF ~(ReadInBounds(prg_rom, RESET_VECTOR) /\ ReadInBounds(prg_rom, RESET_VECTOR + 1))
    THEN Panic(c, "rom_index")
    ELSE [c EXCEPT !.a = 0,
                   !.x = 0,
                   !.y = 0,
                   !.sp = \hFD,
                   !.status = StatusFromU8(36),
                   !.pc = read_word(c, RESET_VECTOR),
                   !.cycles = 0]

\* Cpu::new(Bus::new(rom)): the fields' first values, then reset()
new ==
    reset([a |-> 0, x |-> 0, y |-> 0, sp |-> 0, status |-> StatusFromU8(0),
           pc |-> 0, running |-> TRUE, cycles |-> 0, ram |-> EmptyRam,
           fatal |-> "none"])

---------------------------------------------------------------------------
(* The state machine.                                                      *)

\* the CPU's fields (with the RAM of the bus it owns) as the record the
\* operators above work on
Cpu ==
    [a |-> a, x |-> x, y |-> y, sp |-> sp, status |-> status, pc |-> pc,
     running |-> running, cycles |-> cycles, ram |-> ram, fatal |-> fatal]

\* an operation that panicked leaves nothing behind but the abort
Outcome(r) == IF r.fatal # "none" THEN [Cpu EXCEPT !.fatal = r.fatal] ELSE r

Commit(r) ==
    /\ a' = r.a
    /\ x' = r.x
    /\ y' = r.y
    /\ sp' = r.sp
    /\ status' = r.status
    /\ pc' = r.pc
    /\ running' = r.running
    /\ cycles' = r.cycles
    /\ ram' = r.ram
    /\ fatal' = r.fatal

Entry(op, addr, val, ret) == [op |-> op, addr |-> addr, val |-> val, ret |-> ret]

NoEntry == Entry("none", 0, 0, 0)

Trace(e) ==
    /\ pre' = Cpu
    /\ log' = <<log[2], e>>

Note(e) == Trace(e) /\ UNCHANGED <<run_at, loaded>>

Record(e) == Note(e) /\ UNCHANGED calls

Last == log[2]

Before == log[1]

---------------------------------------------------------------------------
(* Rom::new: an iNES file, as a buffer of bytes, becomes a cartridge.      *)
(* A buffer is its length and its bytes that are not 0.                    *)

NES_TAG == <<\h4E, \h45, \h53, \h1A>>

CHR_ROM_PAGE_SIZE == 8192

\* `v >> n` on a u8
Shr(v, n) == v \div (2 ^ n)

\* raw[i], for an i within the buffer
RawAt(raw, i) == IF i \in DOMAIN raw.data THEN raw.data[i] ELSE 0

\* raw[from..to].to_vec(), for from <= to <= raw.len
Slice(raw, from, to) ==
    [len  |-> to - from,
     data |-> [i \in {j - from : j \in {k \in DOMAIN raw.data : k >= from /\ k < to}}
                |-> raw.data[i + from]]]

NoRom == [len |-> 0, data |-> EmptyRam]

\* what a call of Rom::new comes to: Ok(Rom), Err(Error), or a panic
RomOk(prg, chr, mapper, mirroring) ==
    [kind |-> "Ok", error |-> "none", prg_rom |-> prg, chr_rom |-> chr,
     mapper |-> mapper, mirroring |-> mirroring]

RomErr(error) ==
    [kind |-> "Err", error |-> error, prg_rom |-> NoRom, chr_rom |-> NoRom,
     mapper |-> 0, mirroring |-> "none"]

RomPanic(why) ==
    [kind |-> "panic", error |-> why, prg_rom |-> NoRom, chr_rom |-> NoRom,
     mapper |-> 0, mirroring |-> "none"]

\* the part of Rom::new after the version test
RomBody(raw, mapper) ==
    LET four_screen     == BitAnd(RawAt(raw, 6), \h08) # 0
        vertical_screen == BitAnd(RawAt(raw, 6), \h01) # 0
        mirroring       == IF four_screen THEN "FourScreen"
                           ELSE IF vertical_screen THEN "Vertical"
                           ELSE "Horizontal"
        prg_rom_size    == RawAt(raw, 4) * PRG_ROM_PAGE_SIZE
        chr_rom_size    == RawAt(raw, 5) * CHR_ROM_PAGE_SIZE
        skip_trainer    == BitAnd(RawAt(raw, 6), \h04) # 0
        prg_rom_start   == 16 + (IF skip_trainer THEN 512 ELSE 0)
        chr_rom_start   == prg_rom_start + prg_rom_size
    IN  IF prg_rom_start + prg_rom_size > raw.len
        THEN RomPanic("slice_index")
        ELSE IF chr_rom_start + chr_rom_size > raw.len
        THEN RomPanic("slice_index")
        ELSE RomOk(Slice(raw, prg_rom_start, prg_rom_start + prg_rom_size),
                   Slice(raw, chr_rom_start, chr_rom_start + chr_rom_size),
                   mapper, mirroring)

\* Rom::new(raw)
RomNew(raw) ==
    IF raw.len < 4
    THEN RomPanic("slice_index")
    ELSE IF <<RawAt(raw, 0), RawAt(raw, 1), RawAt(raw, 2), RawAt(raw, 3)>> # NES_TAG
    THEN RomErr("InvalidHeader")
    ELSE IF raw.len <= 7
    THEN RomPanic("index")
    ELSE LET mapper       == BitOr(Shr(RawAt(raw, 6), 4), BitAnd(RawAt(raw, 7), \hF0))
             ines_version == BitAnd(Shr(RawAt(raw, 7), 2), \h01)
         IN  IF ines_version # 0
             THEN RomErr("UnsupportedVersion")
             ELSE RomBody(raw, mapper)

\* no call of Rom::new yet
NotLoaded == [raw |-> NoRom, result |-> RomPanic("none") ]

---------------------------------------------------------------------------
(* Cartridges: the PRG-ROM images the model loads.                         *)

\* the bytes of `code` at offsets base, base + 1, ...
Bytes(base, code) == [i \in base .. (base + Len(code) - 1) |-> code[i - base + 1]]

\* LDA #$01; STA $0200; LDX #$05; BRK
GoldenProgram == <<\hA9, \h01, \h8D, \h00, \h02, \hA2, \h05, \h00>>

\* 8000 LDX #$FF; TXS; LDA #$80; PHA; SEC; ADC #$80; JSR $8010; PHP; PLA; BRK
\* 8010 LDY #$02; DEY; BNE $8012; RTS
StackProgram ==
    <<\hA2, \hFF, \h9A, \hA9, \h80, \h48, \h38, \h69, \h80, \h20, \h10, \h80,
      \h08, \h68, \h00, \h00,
      \hA0, \h02, \h88, \hD0, \hFD, \h60>>

\* one 16KB page: the golden program at offset 0, entered through the mirror
\* at 0xC000
Cart16 ==
    [len  |-> PRG_ROM_PAGE_SIZE,
     data |-> Bytes(0, GoldenProgram) @@ Bytes(\h3FFC, <<\h00, \hC0>>)]

\* two 16KB pages: the stack program in the first, other bytes in the second
Cart32 ==
    [len  |-> 2 * PRG_ROM_PAGE_SIZE,
     data |-> Bytes(0, StackProgram) @@ Bytes(\h4000, <<\h11, \h22>>)
              @@ Bytes(\h7FFC, <<\h00, \h80>>)]

\* three 16KB pages: only the first two are in the CPU's window
Cart48 ==
    [len  |-> 3 * PRG_ROM_PAGE_SIZE,
     data |-> Bytes(0, <<\hE8, \h4C, \h00, \h80>>) @@ Bytes(\h4000, <<\h33>>)
              @@ Bytes(\h7FFC, <<\h00, \h80>>) @@ Bytes(\h8000, <<\h44>>)]

\* no PRG page at all (byte 4 of the header is 0)
Cart0 == [len |-> 0, data |-> EmptyRam]

Carts == {Cart16, Cart32, Cart48, Cart0}

---------------------------------------------------------------------------
(* The program as the host drives it: a cartridge is loaded, the CPU is    *)
(* built, and the host steps it, resets it and reads and writes the bus.   *)

\* the host stops stepping once the cycle counter has reached this
MaxCycles == 40

HostAddrs == {\h0000, \h0800, \h8000}

HostValues == {\h00, \hEA}

Init ==
    /\ prg_rom \in Carts
    /\ overflow_checks \in BOOLEAN
    /\ a = new.a
    /\ x = new.x
    /\ y = new.y
    /\ sp = new.sp
    /\ status = new.status
    /\ pc = new.pc
    /\ running = new.running
    /\ cycles = new.cycles
    /\ ram = new.ram
    /\ fatal = new.fatal
    /\ pre = new
    /\ log = <<NoEntry, Entry("new", 0, 0, 0)>>
    /\ calls = 0
    /\ run_at = "host"
    /\ loaded = NotLoaded

StepWithin(limit) ==
    /\ fatal = "none"
    /\ cycles < limit
    /\ Commit(Outcome(step(Cpu)))
    /\ Record(Entry("step", pc, read_byte(Cpu, pc), 0))
    /\ UNCHANGED <<prg_rom, overflow_checks>>

Step == StepWithin(MaxCycles)

Reset ==
    /\ fatal = "none"
    /\ Commit(Outcome(reset(Cpu)))
    /\ Record(Entry("reset", 0, 0, 0))
    /\ UNCHANGED <<prg_rom, overflow_checks>>

WriteByte(addr, value) ==
    /\ fatal = "none"
    /\ Commit(Outcome(write_byte(Cpu, addr, value)))
    /\ Record(Entry("write_byte", addr, value, 0))
    /\ UNCHANGED <<prg_rom, overflow_checks>>

ReadByte(addr) ==
    /\ fatal = "none"
    /\ IF ReadInBounds(prg_rom, addr)
       THEN /\ Record(Entry("read_byte", addr, 0, read_byte(Cpu, addr)))
            /\ UNCHANGED <<a, x, y, sp, status, pc, running, cycles, ram, fatal>>
       ELSE /\ Record(Entry("read_byte", addr, 0, 0))
            /\ fatal' = "rom_index"
            /\ UNCHANGED <<a, x, y, sp, status, pc, running, cycles, ram>>
    /\ UNCHANGED <<prg_rom, overflow_checks>>

HostWrite == \E addr \in HostAddrs, value \in HostValues : WriteByte(addr, value)

HostRead == \E addr \in HostAddrs : ReadByte(addr)

Next == Step \/ Reset \/ HostWrite \/ HostRead

Spec == Init /\ [][Next]_vars

---------------------------------------------------------------------------
(* The bus alone: the host reads and writes it through the CPU's           *)
(* read_byte and write_byte.                                               *)

BusWriteAddrs == {\h0000, \h07FF, \h0800, \h1FFF}

BusReadAddrs ==
    BusWriteAddrs \cup {\h1000, \h8000, \hBFFF, \hC000, \hFFFF}

BusValues == {\h5A, \hA5}

BusWrite == \E addr \in BusWriteAddrs, value \in BusValues : WriteByte(addr, value)

BusRead1 == \E addr \in BusReadAddrs : ReadByte(addr)

NextBus == BusWrite \/ BusRead1

SpecBus == Init /\ [][NextBus]_vars

---------------------------------------------------------------------------
(* One instruction: the CPU stands before an instruction of a program,     *)
(* with the registers and the memory an earlier part of the program (or    *)
(* the host, through the CPU's public fields and write_byte) has left.     *)

\* the addresses the bytes of `code` occupy from `base` on, wrapping at 0xFFFF
CodeAt(base, code) ==
    [addr \in {Wrap16(base + i) : i \in 0 .. (Len(code) - 1)} |->
        code[((addr + U16 - base) % U16) + 1]]

\* a memory image without its zero bytes
NonZero(f) == [i \in {j \in DOMAIN f : f[j] # 0} |-> f[i]]

\* the RAM holding `data` (cell |-> byte) and the bytes of `placed`
\* (address |-> byte) that fall into 0x0000..0x1FFF
RamWith(placed, data) ==
    LET cells == {BitAnd(addr, 2047) : addr \in {p \in DOMAIN placed : p <= RAM_MIRRORS_END}}
        byte(cell) == placed[CHOOSE p \in DOMAIN placed :
                                p <= RAM_MIRRORS_END /\ BitAnd(p, 2047) = cell]
    IN  NonZero([cell \in cells \cup DOMAIN data |->
                    IF cell \in cells THEN byte(cell) ELSE data[cell]])

\* a 32KB cartridge holding the bytes of `placed` that fall into
\* 0x8000..0xFFFF, with the reset vector pointing at `base`
RomWith(placed, base) ==
    LET vector == CodeAt(RESET_VECTOR, <<base % 256, base \div 256>>)
        all    == placed @@ vector
    IN  [len  |-> 2 * PRG_ROM_PAGE_SIZE,
         data |-> NonZero([off \in {p - PRG_WINDOW : p \in {q \in DOMAIN all : q >= PRG_WINDOW}}
                              |-> all[off + PRG_WINDOW]])]

Flags(carry, zero, overflow, negative) ==
    [carry |-> carry, zero |-> zero, disable_interrupts |-> TRUE,
     decimal |-> FALSE, b1 |-> FALSE, b2 |-> TRUE,
     overflow |-> overflow, negative |-> negative]

\* the CPU before the instruction `code` at `base`, with registers `regs`,
\* the bytes `placed` elsewhere in memory and `data` in RAM
Before1(base, code, regs, placed, data) ==
    /\ prg_rom = RomWith(CodeAt(base, code) @@ placed, base)
    /\ ram = RamWith(CodeAt(base, code) @@ placed, data)
    /\ overflow_checks \in BOOLEAN
    /\ a = regs.a
    /\ x = regs.x
    /\ y = regs.y
    /\ sp = regs.sp
    /\ status = regs.status
    /\ pc = base
    /\ running = TRUE
    /\ cycles = 0
    /\ fatal = "none"
    /\ pre = Cpu
    /\ log = <<NoEntry, Entry("boot", base, 0, 0)>>
    /\ calls = 0
    /\ run_at = "host"
    /\ loaded = NotLoaded

\* the steps the host makes in the one-instruction specifications
MaxInsCycles == 1

StepIns == StepWithin(MaxInsCycles)

NoBytes == [i \in {} |-> 0]

---------------------------------------------------------------------------
(* Every opcode once, with operands that reach RAM, the PPU window and the *)
(* cartridge, at places in RAM, in ROM and at the end of the address space.*)

LenBases == {\h0200, \h8000, \hFFFE, \hFFFF}

LenOperands == {<<\h10, \h02>>, <<\hFF, \h02>>, <<\h10, \h30>>, <<\hFF, \h80>>}

InitLen ==
    \E opcode \in 0 .. 255, operands \in LenOperands, base \in LenBases,
       carry \in BOOLEAN :
        Before1(base, <<opcode>> \o operands,
                [a |-> \h81, x |-> \h01, y |-> \hFF, sp |-> \hFD,
                 status |-> Flags(carry, FALSE, FALSE, TRUE)],
                NoBytes, [cell \in {\h10, \h11, \h12} |-> \h40 + cell])

SpecLen == InitLen /\ [][StepIns]_vars

---------------------------------------------------------------------------
(* Jumps and calls: JMP absolute, JMP indirect and JSR, in RAM and in ROM, *)
(* with operand words that include the address of the operand itself.      *)

JumpOps == {\h4C, \h6C, \h20}

JumpBases == {\h0600, \h8000}

JumpWords(base) == {base + 1, \h0300, \h02FF, \h9000}

JumpTargets(base) == {base + 1, \h1234}

WordBytes(w) == <<w % 256, w \div 256>>

InitJump ==
    \E opcode \in JumpOps, base \in JumpBases, s \in {\hFD, \h00} :
      \E word \in JumpWords(base), target \in JumpTargets(base) :
        Before1(base, <<opcode>> \o WordBytes(word),
                [a |-> 0, x |-> 0, y |-> 0, sp |-> s,
                 status |-> Flags(FALSE, FALSE, FALSE, FALSE)],
                CodeAt(\h0300, WordBytes(target))
                    @@ CodeAt(\h9000, WordBytes(target))
                    @@ CodeAt(\h02FF, <<target % 256>>)
                    @@ CodeAt(\h0200, <<target \div 256>>),
                NoBytes)

SpecJump == InitJump /\ [][StepIns]_vars

---------------------------------------------------------------------------
(* Branches: each of the eight branch opcodes with every offset byte, the  *)
(* tested flag set and clear, in RAM, in ROM and before the end of the     *)
(* address space.                                                          *)

BranchBases == {\h0200, \h8000, \hFFFD}

InitBranch ==
    \E opcode \in RelativeOps, offset \in 0 .. 255, base \in BranchBases,
       flag \in BOOLEAN :
        Before1(base, <<opcode, offset>>,
                [a |-> 0, x |-> 0, y |-> 0, sp |-> \hFD,
                 status |-> Flags(flag, flag, flag, flag)],
                NoBytes, NoBytes)

SpecBranch == InitBranch /\ [][StepIns]_vars

---------------------------------------------------------------------------
(* Addition and subtraction: every ADC and SBC opcode, the immediate ones  *)
(* with every accumulator value, on operands around the sign and carry     *)
(* boundaries, with the carry flag set and clear.                          *)

AdcOps == {\h69, \h65, \h75, \h6D, \h7D, \h79, \h61, \h71}

SbcOps == {\hE9, \hE5, \hF5, \hED, \hFD, \hF9, \hE1, \hF1, \hEB}

AluSamples ==
    {\h00, \h01, \h02, \h0F, \h10, \h3F, \h40, \h7E, \h7F, \h80, \h81, \hBF,
     \hC0, \hF0, \hFE, \hFF}

AluAccumulators(opcode) ==
    IF opcode \in ImmediateOps THEN 0 .. 255 ELSE AluSamples

\* the instruction at 0x0600 with first operand byte v; the byte read from
\* address v is the complement of v
InitAlu ==
    \E opcode \in AdcOps \cup SbcOps, v \in AluSamples, carry \in BOOLEAN :
      \E acc \in AluAccumulators(opcode) :
        Before1(\h0600, <<opcode, v, \h00>>,
                [a |-> acc, x |-> 0, y |-> 0, sp |-> \hFD,
                 status |-> Flags(carry, FALSE, FALSE, FALSE)],
                NoBytes, [cell \in {v} |-> 255 - v])

SpecAlu == InitAlu /\ [][StepIns]_vars

---------------------------------------------------------------------------
(* The stack: push_byte, pop_byte, push_word and pop_word called one after *)
(* the other, from every stack pointer, as the handlers of JSR, RTS, PHA,  *)
(* PLA, PHP, PLP and RTI call them.                                        *)

MaxCalls == 2

StackWords == {\h0000, \h1234, \h80FF, \hFFFF}

StackBytes == {\h00, \hA5}

InitStack ==
    \E s \in 0 .. 255 :
        Before1(\h8000, <<\hEA>>,
                [a |-> 0, x |-> 0, y |-> 0, sp |-> s,
                 status |-> Flags(FALSE, FALSE, FALSE, FALSE)],
                NoBytes, [cell \in {\h00FF, \h0100, \h01FF, \h0200} |-> \h11])

\* a call of a stack operation that returns the CPU `r` (and `ret`)
StackCall(r, e) ==
    /\ fatal = "none"
    /\ calls < MaxCalls
    /\ Commit(Outcome(r))
    /\ Note(e)
    /\ calls' = calls + 1
    /\ UNCHANGED <<prg_rom, overflow_checks>>

PushByte ==
    \E value \in StackBytes :
        StackCall(push_byte(Cpu, value), Entry("push_byte", sp, value, 0))

PopByte ==
    StackCall(pop_byte(Cpu).cpu, Entry("pop_byte", sp, 0, pop_byte(Cpu).value))

PushWord ==
    \E value \in StackWords :
        StackCall(push_word(Cpu, value), Entry("push_word", sp, value, 0))

PopWord ==
    StackCall(pop_word(Cpu).cpu, Entry("pop_word", sp, 0, pop_word(Cpu).value))

NextStack == PushByte \/ PopByte \/ PushWord \/ PopWord

SpecStack == InitStack /\ [][NextStack]_vars

---------------------------------------------------------------------------
(* Indirect addressing: JMP (P) with the pointer P at the end and inside   *)
(* of pages of RAM, of PRG-ROM and of the PPU window, and the operand      *)
(* address get_operand_address resolves for it (as Cpu::step and the trace *)
(* callback ask for it).                                                   *)

IndirectPointers == {\h02FF, \h0310, \h07FF, \h30FF, \h80FF, \h9010, \hFFFF}

\* the bytes at P, at P + 1 and at the start of P's page
IndirectBytes == {<<\h40, \h50, \h80>>, <<\h80, \h50, \h40>>, <<\h34, \h12, \h56>>}

InitIndirect ==
    \E pointer \in IndirectPointers, bytes \in IndirectBytes :
        Before1(\h0600, <<\h6C>> \o WordBytes(pointer),
                [a |-> 0, x |-> 0, y |-> 0, sp |-> \hFD,
                 status |-> Flags(FALSE, FALSE, FALSE, FALSE)],
                CodeAt(pointer, <<bytes[1]>>)
                    @@ CodeAt(Wrap16(pointer + 1), <<bytes[2]>>)
                    @@ CodeAt(BitAnd(pointer, \hFF00), <<bytes[3]>>),
                NoBytes)

\* get_operand_address for the instruction at pc, when it has an operand
ResolveOperand ==
    /\ fatal = "none"
    /\ calls < MaxCalls
    /\ InsMode(read_byte(Cpu, pc)) # "None"
    /\ Note(Entry("get_operand_address", Wrap16(pc + 1), read_byte(Cpu, pc),
                  get_operand_address(Cpu, InsMode(read_byte(Cpu, pc)), Wrap16(pc + 1))))
    /\ calls' = calls + 1
    /\ UNCHANGED <<a, x, y, sp, status, pc, running, cycles, ram, fatal,
                   prg_rom, overflow_checks>>

NextIndirect == ResolveOperand \/ StepIns

SpecIndirect == InitIndirect /\ [][NextIndirect]_vars

---------------------------------------------------------------------------
(* The PPU register window and the unmapped range: the host reads and      *)
(* writes at their ends and at I/O addresses in between, and in RAM.       *)

IoAddrs == {\h0000, \h2000, \h2007, \h3FFF, \h4000, \h4016, \h7FFF}

IoWrite == \E addr \in IoAddrs, value \in BusValues : WriteByte(addr, value)

IoRead == \E addr \in IoAddrs : ReadByte(addr)

NextIo == IoWrite \/ IoRead

SpecIo == Init /\ [][NextIo]_vars

---------------------------------------------------------------------------
(* Writes into the cartridge: each instruction that writes memory (and a   *)
(* load, a NOP and a push beside them), aimed at PRG-ROM and at RAM, with  *)
(* resets and host writes in between.                                      *)

RomWriteOps == StoreOps \cup ModifyOps \cup {\hAD, \hEA, \h48}

\* operands for the ROM address 0x80FF and the RAM address 0x0210; the
\* zero-page pointer at 0xFF/0x00 holds 0x9000
RomWriteOperands == {<<\hFF, \h80>>, <<\h10, \h02>>}

InitRomWrite ==
    \E opcode \in RomWriteOps, operands \in RomWriteOperands :
        Before1(\h0600, <<opcode>> \o operands,
                [a |-> \h5A, x |-> 0, y |-> 1, sp |-> \hFD,
                 status |-> Flags(FALSE, FALSE, FALSE, FALSE)],
                CodeAt(\h80FF, <<\h77>>) @@ CodeAt(\h9001, <<\h66>>),
                [cell \in {\h00} |-> \h90])

\* the host writes into RAM and into the cartridge
RomHostWrite == \E addr \in {\h0000, \h80FF} : WriteByte(addr, \hEA)

\* reset(), MaxCalls times at most
ResetAgain ==
    /\ fatal = "none"
    /\ calls < MaxCalls
    /\ Commit(Outcome(reset(Cpu)))
    /\ Note(Entry("reset", 0, 0, 0))
    /\ calls' = calls + 1
    /\ UNCHANGED <<prg_rom, overflow_checks>>

NextRomWrite == StepIns \/ ResetAgain \/ RomHostWrite

SpecRomWrite == InitRomWrite /\ [][NextRomWrite]_vars

---------------------------------------------------------------------------
(* run_with_callback: `while self.running { callback(self); self.step(); }`*)
(* The host calls it on the CPU it has built, calls it again after it has  *)
(* returned, and resets the CPU in between.  The callback observes.        *)

Run ==
    /\ fatal = "none"
    /\ run_at \in {"host", "returned"}
    /\ run_at' = "test"
    /\ UNCHANGED loaded
    /\ Trace(Entry("run", pc, 0, 0))
    /\ UNCHANGED <<a, x, y, sp, status, pc, running, cycles, ram, fatal,
                   prg_rom, overflow_checks, calls>>

\* `while self.running`
RunTest ==
    /\ fatal = "none"
    /\ run_at = "test"
    /\ run_at' = IF running THEN "callback" ELSE "returned"
    /\ UNCHANGED loaded
    /\ UNCHANGED <<a, x, y, sp, status, pc, running, cycles, ram, fatal,
                   prg_rom, overflow_checks, calls, pre, log>>

\* `callback(self)`
RunCallback ==
    /\ fatal = "none"
    /\ run_at = "callback"
    /\ run_at' = "step"
    /\ UNCHANGED loaded
    /\ Trace(Entry("callback", pc, read_byte(Cpu, pc), 0))
    /\ UNCHANGED <<a, x, y, sp, status, pc, running, cycles, ram, fatal,
                   prg_rom, overflow_checks, calls>>

\* `self.step()`
RunStep ==
    /\ fatal = "none"
    /\ run_at = "step"
    /\ cycles < MaxCycles
    /\ run_at' = "test"
    /\ UNCHANGED loaded
    /\ Commit(Outcome(step(Cpu)))
    /\ Trace(Entry("step", pc, read_byte(Cpu, pc), 0))
    /\ UNCHANGED <<prg_rom, overflow_checks, calls>>

\* reset() by the host, outside of run_with_callback
RunReset ==
    /\ fatal = "none"
    /\ run_at \in {"host", "returned"}
    /\ run_at' = "host"
    /\ UNCHANGED loaded
    /\ Commit(Outcome(reset(Cpu)))
    /\ Trace(Entry("reset", 0, 0, 0))
    /\ UNCHANGED <<prg_rom, overflow_checks, calls>>

NextRun == Run \/ RunTest \/ RunCallback \/ RunStep \/ RunReset

SpecRun == Init /\ [][NextRun]_vars

\* the loop is sequential code: once entered, its test and the call of
\* the callback are taken (step may panic, and is capped by MaxCycles)
SpecRunFair == SpecRun /\ WF_vars(RunTest \/ RunCallback)


---------------------------------------------------------------------------
(* The cycle counter over several instructions: every opcode first, then   *)
(* whatever the memory behind it holds, with resets by the host in between.*)

CycleBases == {\h0200, \h8000}

InitCycles ==
    \E opcode \in 0 .. 255, base \in CycleBases, second \in {\h00, \hEA, \hA9} :
        Before1(base, <<opcode, \h10, \h02, second>>,
                [a |-> \h81, x |-> \h01, y |-> \hFF, sp |-> \hFD,
                 status |-> Flags(FALSE, FALSE, FALSE, TRUE)],
                NoBytes, [cell \in {\h10, \h11, \h12} |-> \h40 + cell])

NextCycles == Step \/ ResetAgain

SpecCycles == InitCycles /\ [][NextCycles]_vars

---------------------------------------------------------------------------
(* The status conversions called on their own: a byte is made the status   *)
(* (`cpu.status = v.into()`), the status is made a byte (`u8::from`); the  *)
(* host does not convert two bytes in a row.                               *)

StatusFrom(v) ==
    /\ fatal = "none"
    /\ calls < MaxCalls
    /\ Last.op # "status_from"
    /\ calls' = calls + 1
    /\ status' = StatusFromU8(v)
    /\ Note(Entry("status_from", 0, v, 0))
    /\ UNCHANGED <<a, x, y, sp, pc, running, cycles, ram, fatal, prg_rom,
                   overflow_checks>>

StatusInto ==
    /\ fatal = "none"
    /\ calls < MaxCalls
    /\ calls' = calls + 1
    /\ Note(Entry("status_into", 0, 0, StatusToU8(status)))
    /\ UNCHANGED <<a, x, y, sp, status, pc, running, cycles, ram, fatal,
                   prg_rom, overflow_checks>>

NextStatus == (\E v \in 0 .. 255 : StatusFrom(v)) \/ StatusInto

InitStatus == Init /\ prg_rom = Cart16

SpecStatus == InitStatus /\ [][NextStatus]_vars

---------------------------------------------------------------------------
(* Booting a cartridge of one 16KB page: a program at offset 0, another at *)
(* offset 0x10, the reset vector in the page's bytes 0x3FFC/0x3FFD and the *)
(* IRQ vector in its last two bytes.                                       *)

BootVectors == {\h8000, \hC000, \h8010, \hC010}

\* LDA #, NOP, INX, BRK and an opcode step has no arm for
BootOps == {\hA9, \hEA, \hE8, \h00, \h02}

BootCart(opcode, vector, irq) ==
    [len  |-> PRG_ROM_PAGE_SIZE,
     data |-> NonZero(Bytes(0, <<opcode, \h42>>) @@ Bytes(\h10, <<\hA2, \h07>>)
                        @@ Bytes(\h3FFC, WordBytes(vector) \o WordBytes(irq)))]

InitBoot ==
    /\ \E opcode \in BootOps, vector \in BootVectors, irq \in BootVectors :
            prg_rom = BootCart(opcode, vector, irq)
    /\ overflow_checks \in BOOLEAN
    /\ a = new.a
    /\ x = new.x
    /\ y = new.y
    /\ sp = new.sp
    /\ status = new.status
    /\ pc = new.pc
    /\ running = new.running
    /\ cycles = new.cycles
    /\ ram = new.ram
    /\ fatal = new.fatal
    /\ pre = new
    /\ log = <<NoEntry, Entry("new", 0, 0, 0)>>
    /\ calls = 0
    /\ run_at = "host"
    /\ loaded = NotLoaded

NextBoot == Step \/ Reset

SpecBoot == InitBoot /\ [][NextBoot]_vars

---------------------------------------------------------------------------
(* Loading files: the host calls Rom::new on buffers that are whole, cut   *)
(* short, of another format, or no iNES file at all.                       *)

RomLens ==
    {0, 3, 4, 7, 8, 15, 16, 528, 16399, 16400, 16911, 16912, 24591, 24592,
     32784}

\* the tag, the tag with one byte wrong at each place, and no tag
RomTags ==
    {NES_TAG, <<\h4F, \h45, \h53, \h1A>>, <<\h4E, \h44, \h53, \h1A>>,
     <<\h4E, \h45, \h00, \h1A>>, <<\h4E, \h45, \h53, \h1B>>, <<0, 0, 0, 0>>}

\* byte 6: nothing, a trainer, four-screen and vertical, mapper 1
RomFlags6 == {\h00, \h04, \h09, \h10}

\* byte 7: nothing, each version bit, both, the mapper's high nibble
RomFlags7 == {\h00, \h04, \h08, \h0C, \h10}

\* a file of `len` bytes: the header, then marks where PRG and CHR may start
RawFile(len, tag, prg_pages, chr_pages, flags6, flags7) ==
    LET whole == Bytes(0, tag \o <<prg_pages, chr_pages, flags6, flags7>>)
                 @@ Bytes(16, <<\hA9>>) @@ Bytes(528, <<\hA2>>)
                 @@ Bytes(16400, <<\h33>>) @@ Bytes(16912, <<\h44>>)
    IN  [len  |-> len,
         data |-> NonZero([i \in {j \in DOMAIN whole : j < len} |-> whole[i]])]

RawFiles ==
    {RawFile(len, tag, prg_pages, chr_pages, flags6, flags7) :
        len \in RomLens, tag \in RomTags, prg_pages \in 0 .. 2,
        chr_pages \in 0 .. 1, flags6 \in RomFlags6, flags7 \in RomFlags7}

\* Rom::new(raw), called by the host on the one file it is given; a panic
\* ends the process
LoadRom(raw) ==
    /\ fatal = "none"
    /\ loaded = NotLoaded
    /\ loaded' = [raw |-> raw, result |-> RomNew(raw)]
    /\ fatal' = IF RomNew(raw).kind = "panic" THEN RomNew(raw).error ELSE fatal
    /\ Trace(Entry("rom_new", 0, 0, 0))
    /\ UNCHANGED <<a, x, y, sp, status, pc, running, cycles, ram, prg_rom,
                   overflow_checks, calls, run_at>>

NextRom == \E raw \in RawFiles : LoadRom(raw)

SpecRom == InitStatus /\ [][NextRom]_vars

---------------------------------------------------------------------------
(* Relative operands: two branch opcodes with every offset byte, at the    *)
(* start of RAM, in ROM and before the end of the address space, resolved  *)
(* on their own and stepped.                                               *)

RelativeBases == {\h0000, \h8000, \hFFFD}

InitRelative ==
    \E opcode \in {\hD0, \hF0}, offset \in 0 .. 255, base \in RelativeBases :
        Before1(base, <<opcode, offset>>,
                [a |-> 0, x |-> 0, y |-> 0, sp |-> \hFD,
                 status |-> Flags(FALSE, FALSE, FALSE, FALSE)],
                NoBytes, NoBytes)

NextRelative == ResolveOperand \/ StepIns

SpecRelative == InitRelative /\ [][NextRelative]_vars

---------------------------------------------------------------------------
(* Zero and negative: the official loads, transfers, increments and        *)
(* decrements, logical, shift, rotate and arithmetic opcodes, on operands  *)
(* in RAM and registers around 0 and the sign bit, with the two flags set  *)
(* and clear beforehand.                                                   *)

LoadOps ==
    {\hA9, \hA5, \hB5, \hAD, \hBD, \hB9, \hA1, \hB1,
     \hA2, \hA6, \hB6, \hAE, \hBE,
     \hA0, \hA4, \hB4, \hAC, \hBC}

\* TAX, TAY, TSX, TXA, TYA
TransferOps == {\hAA, \hA8, \hBA, \h8A, \h98}

\* INX, INY, DEX, DEY, INC, DEC
CountOps ==
    {\hE8, \hC8, \hCA, \h88, \hE6, \hF6, \hEE, \hFE, \hC6, \hD6, \hCE, \hDE}

LogicalOps ==
    {\h29, \h25, \h35, \h2D, \h3D, \h39, \h21, \h31,
     \h09, \h05, \h15, \h0D, \h1D, \h19, \h01, \h11,
     \h49, \h45, \h55, \h4D, \h5D, \h59, \h41, \h51}

\* ASL, LSR, ROL, ROR on the accumulator and on memory
ShiftOps ==
    {\h0A, \h06, \h16, \h0E, \h1E, \h4A, \h46, \h56, \h4E, \h5E,
     \h2A, \h26, \h36, \h2E, \h3E, \h6A, \h66, \h76, \h6E, \h7E}

\* ADC and the official SBC
ArithmeticOps ==
    {\h69, \h65, \h75, \h6D, \h7D, \h79, \h61, \h71,
     \hE9, \hE5, \hF5, \hED, \hFD, \hF9, \hE1, \hF1}

FlagOps ==
    LoadOps \cup TransferOps \cup CountOps \cup LogicalOps \cup ShiftOps
        \cup ArithmeticOps

FlagBytes == {\h00, \h01, \h80, \hFF}

FlagIndexes == {\h00, \h01, \hFF}

\* the instruction at 0x0600 with operand 0x10 / 0x0210; every cell an
\* index can reach from there holds v
InitFlags ==
    \E opcode \in FlagOps, v \in FlagBytes, acc \in FlagBytes,
       index \in FlagIndexes, carry \in BOOLEAN, flag \in BOOLEAN :
        Before1(\h0600, <<opcode, \h10, \h02>>,
                [a |-> acc, x |-> index, y |-> index, sp |-> \hFD,
                 status |-> Flags(carry, flag, FALSE, flag)],
                NoBytes,
                [cell \in {(\h10 + k) % 256 : k \in FlagIndexes}
                            \cup {\h0210 + k : k \in FlagIndexes} |-> v])

SpecFlags == InitFlags /\ [][StepIns]_vars

---------------------------------------------------------------------------
(* The unofficial fused opcodes, every addressing form of each, on cells   *)
(* of RAM: the zero-page and absolute forms on 0x10 / 0x0210 plus index,   *)
(* the indirect forms through a pointer to 0x0300.                         *)

SloOps == {\h07, \h17, \h0F, \h1F, \h1B, \h03, \h13}

RlaOps == {\h27, \h37, \h2F, \h3F, \h3B, \h23, \h33}

SreOps == {\h47, \h57, \h4F, \h5F, \h5B, \h43, \h53}

RraOps == {\h67, \h77, \h6F, \h7F, \h7B, \h63, \h73}

DcpOps == {\hC7, \hD7, \hCF, \hDF, \hDB, \hC3, \hD3}

IsbOps == {\hE7, \hF7, \hEF, \hFF, \hFB, \hE3, \hF3}

LaxOps == {\hA7, \hB7, \hAF, \hBF, \hA3, \hB3}

SaxOps == {\h87, \h97, \h8F, \h83}

FusedOps ==
    SloOps \cup RlaOps \cup SreOps \cup RraOps \cup DcpOps \cup IsbOps
        \cup LaxOps \cup SaxOps

FusedBytes == {\h00, \h01, \h7F, \h80, \hFF}

\* the RAM before a fused opcode: v in the cell the operand names, and for
\* the indirect forms the pointer 0x0300 in the zero page
FusedData(opcode, index, v) ==
    IF InsMode(opcode) = "IndirectX"
    THEN (((\h10 + index) % 256) :> \h00) @@ (((\h11 + index) % 256) :> \h03)
            @@ (\h0300 :> v)
    ELSE IF InsMode(opcode) = "IndirectY"
    THEN (\h10 :> \h00) @@ (\h11 :> \h03) @@ ((\h0300 + index) :> v)
    ELSE [cell \in {(\h10 + k) % 256 : k \in {0, index}}
                    \cup {\h0210 + k : k \in {0, index}} |-> v]

InitFused ==
    \E opcode \in FusedOps, v \in FusedBytes, acc \in FusedBytes,
       index \in FlagIndexes, carry \in BOOLEAN, flag \in BOOLEAN :
        Before1(\h0600, <<opcode, \h10, \h02>>,
                [a |-> acc, x |-> index, y |-> index, sp |-> \hFD,
                 status |-> Flags(carry, flag, flag, flag)],
                NoBytes, FusedData(opcode, index, v))

SpecFused == InitFused /\ [][StepIns]_vars

---------------------------------------------------------------------------
(* Zero-page operands: LDA (zp,X), LDA (zp),Y, LDA zp,X and LDX zp,Y with  *)
(* operands and indexes that reach and pass the end of the zero page; the  *)
(* cells of the zero page and of page 1 hold bytes that tell them apart.   *)

ZeroPageOpcodes == {\hA1, \hB1, \hB5, \hB6}

ZeroPageOperands == {\h00, \h10, \hFE, \hFF}

ZeroPageIndexes == {\h00, \h01, \h02, \hFF}

ZeroPageData ==
    (\h00 :> \h34) @@ (\h01 :> \h12) @@ (\h02 :> \h56) @@ (\h0F :> \h9A)
        @@ (\h10 :> \hFF) @@ (\h11 :> \hFF) @@ (\h12 :> \h03)
        @@ (\hFD :> \h78) @@ (\hFE :> \hBC) @@ (\hFF :> \hDE)
        @@ (\h0100 :> \hA5) @@ (\h0101 :> \h5A) @@ (\h0110 :> \hC3)

InitZeroPage ==
    \E opcode \in ZeroPageOpcodes, operand \in ZeroPageOperands,
       xi \in ZeroPageIndexes, yi \in ZeroPageIndexes :
        Before1(\h0600, <<opcode, operand>>,
                [a |-> 0, x |-> xi, y |-> yi, sp |-> \hFD,
                 status |-> Flags(FALSE, FALSE, FALSE, FALSE)],
                NoBytes, ZeroPageData)

NextZeroPage == ResolveOperand \/ StepIns

SpecZeroPage == InitZeroPage /\ [][NextZeroPage]_vars

---------------------------------------------------------------------------
(* From file to CPU, as the host does it: Rom::new(&file).unwrap(), then   *)
(* Cpu::new(Bus::new(rom)), for iNES files of zero to three PRG pages that *)
(* Rom::new accepts; the host then steps, resets and reads the bus.        *)

CartPages == 0 .. 3

\* a whole iNES file of `prg_pages` pages: the golden program at the start
\* of the PRG-ROM and the reset vector 0x8000 at the end of each of its
\* first two pages
CartFile(prg_pages, flags7) ==
    LET len   == 16 + prg_pages * PRG_ROM_PAGE_SIZE
        whole == Bytes(0, NES_TAG \o <<prg_pages, 0, 0, flags7>>)
                 @@ Bytes(16, GoldenProgram)
                 @@ Bytes(16 + \h3FFC, <<\h00, \h80>>)
                 @@ Bytes(16 + \h7FFC, <<\h00, \h80>>)
    IN  [len  |-> len,
         data |-> NonZero([i \in {j \in DOMAIN whole : j < len} |-> whole[i]])]

CartFiles == {CartFile(prg_pages, flags7) : prg_pages \in CartPages, flags7 \in {\h00, \h10}}

CartReadAddrs ==
    {\h0000, \h1FFF, \h2000, \h4020, \h8000, \hBFFF, \hC000, \hFFFC, \hFFFF}

InitCart ==
    /\ \E raw \in CartFiles :
        /\ RomNew(raw).kind = "Ok"
        /\ loaded = [raw |-> raw, result |-> RomNew(raw)]
    /\ prg_rom = loaded.result.prg_rom
    /\ overflow_checks \in BOOLEAN
    /\ a = new.a
    /\ x = new.x
    /\ y = new.y
    /\ sp = new.sp
    /\ status = new.status
    /\ pc = new.pc
    /\ running = new.running
    /\ cycles = new.cycles
    /\ ram = new.ram
    /\ fatal = new.fatal
    /\ pre = new
    /\ log = <<NoEntry, Entry("new", 0, 0, 0)>>
    /\ calls = 0
    /\ run_at = "host"

CartRead == \E addr \in CartReadAddrs : ReadByte(addr)

NextCart == Step \/ Reset \/ CartRead

SpecCart == InitCart /\ [][NextCart]_vars

---------------------------------------------------------------------------
(* Calls: a JSR in RAM, in ROM and at the end of the address space, to a   *)
(* subroutine that returns at once or after a PHA and a PLA, from stack    *)
(* pointers that include those at which the frame wraps around page 1; the *)
(* target may be the address of the JSR's own first operand byte.          *)

CallBases == {\h0600, \h8000, \hFFFD}

CallTargets(base) == {\h0700, \h9000} \cup (IF base = \hFFFD THEN {} ELSE {base + 1})

CallPointers == {\hFD, \h01, \h00, \hFF}

InitCall ==
    \E base \in CallBases, s \in CallPointers :
      \E target \in CallTargets(base) :
        Before1(base, <<\h20>> \o WordBytes(target),
                [a |-> \h77, x |-> 0, y |-> 0, sp |-> s,
                 status |-> Flags(FALSE, FALSE, FALSE, FALSE)],
                CodeAt(\h0700, <<\h48, \h68, \h60>>) @@ CodeAt(\h9000, <<\h60>>),
                NoBytes)

SpecCall == InitCall /\ [][Step]_vars

---------------------------------------------------------------------------
(* Restarting: the run loop with a host that may also set the running flag *)
(* itself, as the front end does after Cpu::new and after its reset key.   *)

\* `cpu.running = true` by the host, outside of run_with_callback
SetRunning ==
    /\ fatal = "none"
    /\ run_at \in {"host", "returned"}
    /\ running' = TRUE
    /\ run_at' = "host"
    /\ UNCHANGED loaded
    /\ Trace(Entry("set_running", 0, 0, 0))
    /\ UNCHANGED <<a, x, y, sp, status, pc, cycles, ram, fatal,
                   prg_rom, overflow_checks, calls>>

NextRestart == Run \/ RunTest \/ RunCallback \/ RunStep \/ RunReset \/ SetRunning

SpecRestart == Init /\ [][NextRestart]_vars

---------------------------------------------------------------------------
(* The status byte on the stack: PHP followed by PLP from every status,    *)
(* and PLP and RTI on every byte, from stack pointers that include those   *)
(* at which the stack wraps around page 1.                                 *)

PushPointers == {\hFD, \hFF, \h00}

\* the byte v on top of the stack at pointer s, over the word 0x1234
PushData(s, v) ==
    ((STACK + ((s + 1) % 256)) :> v) @@ ((STACK + ((s + 2) % 256)) :> \h34)
        @@ ((STACK + ((s + 3) % 256)) :> \h12)

InitPush ==
    \E s \in PushPointers, v \in 0 .. 255 :
        \/ Before1(\h0600, <<\h08, \h28>>,
                   [a |-> 0, x |-> 0, y |-> 0, sp |-> s, status |-> StatusFromU8(v)],
                   NoBytes, NoBytes)
        \/ \E opcode \in {\h28, \h40}, own \in {\h24, \hFF} :
            Before1(\h0600, <<opcode>>,
                    [a |-> 0, x |-> 0, y |-> 0, sp |-> s, status |-> StatusFromU8(own)],
                    NoBytes, PushData(s, v))

SpecPush == InitPush /\ [][Step]_vars
---------------------------------------------------------------------------
(* Claims.                                                                 *)

\* C1: reset(), from whatever state the CPU is in (and as Cpu::new calls
\* it), leaves A = X = Y = 0, SP = 0xFD, the status byte 0b0010_0100 (only
\* interrupt-disable and bit 5 set), the cycle counter 0, and PC the
\* little-endian word at bus addresses 0xFFFC (low) and 0xFFFD (high).
C1_ResetState ==
    (Last.op \in {"reset", "new"} /\ fatal = "none") =>
        /\ a = 0 /\ x = 0 /\ y = 0
        /\ sp = 253
        /\ StatusToU8(status) = 36
        /\ status = [carry |-> FALSE, zero |-> FALSE, disable_interrupts |-> TRUE,
                     decimal |-> FALSE, b1 |-> FALSE, b2 |-> TRUE,
                     overflow |-> FALSE, negative |-> FALSE]
        /\ cycles = 0
        /\ pc = BusRead(ram, prg_rom, 65532) + 256 * BusRead(ram, prg_rom, 65533)

\* a reset of a CPU whose registers, stack pointer, flags, PC and cycle
\* counter a program has all changed
C1_Witness ==
    /\ Last.op = "reset" /\ fatal = "none"
    /\ pre.a # 0 /\ pre.x # 0 /\ pre.y # 0 /\ pre.sp # 253
    /\ pre.status.carry /\ pre.cycles > 0 /\ pre.pc # pc
    /\ pc = 32768

\* C9: with a 16KB PRG-ROM, read_byte(a) and read_byte(a + 0x4000) both
\* return prg_rom[a - 0x8000] for every a in 0x8000..0xBFFF; with a 32KB
\* PRG-ROM, read_byte(a) returns prg_rom[a - 0x8000] for every a in
\* 0x8000..0xFFFF.  Checked for every address on the bus a cartridge was just
\* attached to, and for every read the host makes afterwards.
C9_PrgMapping ==
    /\ (Last.op = "new" /\ fatal = "none" /\ prg_rom.len = 16384) =>
          \A addr \in 32768 .. 49151 :
              /\ BusRead(ram, prg_rom, addr) = PrgAt(prg_rom, addr - 32768)
              /\ BusRead(ram, prg_rom, addr + 16384) = PrgAt(prg_rom, addr - 32768)
    /\ (Last.op = "new" /\ fatal = "none" /\ prg_rom.len = 32768) =>
          \A addr \in 32768 .. 65535 :
              BusRead(ram, prg_rom, addr) = PrgAt(prg_rom, addr - 32768)
    /\ (Last.op = "read_byte" /\ fatal = "none" /\ Last.addr >= 32768) =>
          /\ prg_rom.len = 16384 =>
                Last.ret = PrgAt(prg_rom, (Last.addr - 32768) % 16384)
          /\ prg_rom.len = 32768 =>
                Last.ret = PrgAt(prg_rom, Last.addr - 32768)

\* a read of 0xC000 that returned the 16KB cartridge's first byte, and one
\* that returned the first byte of the 32KB cartridge's second page
C9_Witness ==
    /\ Last.op = "read_byte" /\ Last.addr = 49152 /\ fatal = "none"
    /\ \/ prg_rom.len = 16384 /\ Last.ret = 169 /\ PrgAt(prg_rom, 0) = 169
       \/ prg_rom.len = 32768 /\ Last.ret = 17 /\ PrgAt(prg_rom, 0) = 162

\* C10: for every address a in 0x0000..0x1FFF, read_byte(a) and
\* write_byte(a, v) act on RAM cell (a AND 0x07FF): after write_byte(a, v)
\* every mirror of the cell reads v and every other RAM cell is unchanged.
C10_RamMirroring ==
    /\ (Last.op = "write_byte" /\ Last.addr <= 8191 /\ fatal = "none") =>
          /\ \A k \in 0 .. 3 :
                BusRead(ram, prg_rom, (Last.addr % 2048) + k * 2048) = Last.val
          /\ \A i \in (DOMAIN ram \cup DOMAIN pre.ram) \ {Last.addr % 2048} :
                RamAt(ram, i) = RamAt(pre.ram, i)
          /\ DOMAIN ram \subseteq 0 .. 2047
    /\ (Last.op = "read_byte" /\ Last.addr <= 8191 /\ fatal = "none") =>
          /\ Last.ret = RamAt(ram, Last.addr % 2048)
          /\ ram = pre.ram
    /\ (/\ Before.op = "write_byte" /\ Last.op = "read_byte"
        /\ Before.addr <= 8191 /\ Last.addr <= 8191
        /\ Before.addr % 2048 = Last.addr % 2048) =>
          Last.ret = Before.val

\* a value written through one mirror and read back through another, with
\* another cell holding a different value
C10_Witness ==
    /\ Before.op = "write_byte" /\ Last.op = "read_byte"
    /\ Before.addr = 8191 /\ Last.addr = 2047 /\ Last.ret = Before.val
    /\ RamAt(ram, 0) # 0 /\ RamAt(ram, 0) # Last.ret

\* the opcodes whose handlers set PC themselves, and BRK, which returns
\* from step() before the advance
PcOps == {\h00, \h4C, \h6C, \h20, \h40, \h60} \cup RelativeOps

\* C2: for every implemented opcode whose handler does not alter PC, one
\* step() leaves PC = PC before + the instruction's length (1, 2 or 3, modulo
\* 2^16); the NOP-family opcodes also leave A, X, Y, SP, the flags and all
\* memory unchanged.
C2_PcAdvance ==
    (Last.op = "step" /\ fatal = "none" /\ Last.val \notin PcOps) =>
        /\ InsBytes(Last.val) \in {1, 2, 3}
        /\ pc = (pre.pc + InsBytes(Last.val)) % 65536
        /\ Last.val = 234 => pc = (pre.pc + 1) % 65536
        /\ Last.val \in {128, 130, 137, 194, 226, 4, 68, 100, 20, 52, 84, 116, 212, 244}
              => pc = (pre.pc + 2) % 65536
        /\ Last.val \in {12, 28, 60, 92, 124, 220, 252} => pc = (pre.pc + 3) % 65536
        /\ Last.val \in NopOps =>
              /\ a = pre.a /\ x = pre.x /\ y = pre.y /\ sp = pre.sp
              /\ status = pre.status /\ ram = pre.ram

\* the 3-byte unofficial NOP 0x0C stepped over in RAM, all else unchanged
C2_Witness ==
    /\ Last.op = "step" /\ fatal = "none" /\ Last.val = 12
    /\ pre.pc = 512 /\ pc = 515 /\ a = 129 /\ ram = pre.ram

\* the byte the bus returned at `addr` before the last operation
PreByte(addr) == BusRead(pre.ram, prg_rom, addr % 65536)

PreWord(addr) == PreByte(addr) + 256 * PreByte(addr + 1)

\* the target of the jump or call at pre.pc, resolved as the handler does
JumpTarget ==
    LET word == PreWord(pre.pc + 1)
    IN  IF Last.val = 108
        THEN IF word % 256 = 255
             THEN PreByte(word) + 256 * PreByte(word - 255)
             ELSE PreWord(word)
        ELSE word

\* C3: after step() executes JMP absolute (0x4C), JMP indirect (0x6C) or JSR
\* (0x20), PC is exactly the target the handler resolved, whatever the target,
\* the address of the instruction's own first operand byte included.
C3_JumpLandsOnTarget ==
    (Last.op = "step" /\ fatal = "none" /\ Last.val \in JumpOps) =>
        pc = JumpTarget

\* C4: after step() executes a branch, PC is the pre-fetch PC plus 2 when the
\* tested condition is false, and the relative-mode target plus 1 when it is
\* true, for every offset byte.
C4_BranchPc ==
    (Last.op = "step" /\ fatal = "none" /\ Last.val \in RelativeOps) =>
        LET offset == PreByte(pre.pc + 1)
            signed == IF offset < 128 THEN offset ELSE offset - 256
            target == (pre.pc + 1 + signed + 65536) % 65536
        IN  IF ConditionMet(pre, BranchConditionOf(Last.val))
            THEN pc = (target + 1) % 65536
            ELSE pc = (pre.pc + 2) % 65536

\* the operand byte the instruction at pre.pc reads
PreOperand ==
    PreByte(get_operand_address(pre, InsMode(Last.val), (pre.pc + 1) % 65536))

\* the sum of A, `value` and the carry flag of CPU `c`
WideSum(c, value) == c.a + value + (IF c.status.carry THEN 1 ELSE 0)

\* A and the four flags of `c` are those of the 8-bit addition of `value`
\* to A and carry of `before`, the overflow flag being the signed overflow
IsSumOf(c, before, value) ==
    LET wide   == WideSum(before, value)
        result == wide % 256
    IN  /\ c.a = result
        /\ c.status.carry = (wide > 255)
        /\ c.status.overflow =
              (((value >= 128) = (before.a >= 128)) /\ ((result >= 128) # (before.a >= 128)))
        /\ c.status.zero = (result = 0)
        /\ c.status.negative = (result >= 128)

\* the overflow flag of `c` is ((value XOR result) AND (result XOR A) AND 0x80) != 0
OverflowByXor(c, before, value) ==
    c.status.overflow =
        (BitAnd(BitAnd(BitXor(value, c.a), BitXor(c.a, before.a)), 128) # 0)

\* the state before the immediate instruction `opcode` with operand 0 in the
\* build without overflow checks: one such state for each A and carry
BeforeImmediateZero(opcode) ==
    /\ Last.op = "boot" /\ ~overflow_checks
    /\ read_byte(Cpu, pc) = opcode /\ read_byte(Cpu, pc + 1) = 0

\* C5: ADC leaves A = (A + operand + carry-in) mod 256, carry = (the sum
\* exceeds 255), overflow = ((operand XOR result) AND (result XOR A before)
\* AND 0x80) != 0, zero = (result = 0), negative = bit 7 of the result: for
\* the instruction stepped, and for every operand byte the adder can be given
\* in the state before an immediate ADC.
C5_AdcSum ==
    /\ (Last.op = "step" /\ fatal = "none" /\ Last.val \in AdcOps) =>
          IsSumOf(Cpu, pre, PreOperand) /\ OverflowByXor(Cpu, pre, PreOperand)
    /\ BeforeImmediateZero(105) =>
          \A value \in 0 .. 255 : IsSumOf(add_to_a(Cpu, value), Cpu, value)

\* ADC #$7F on A = 0x7F with carry set: 0xFF, no carry, signed overflow
C5_Witness ==
    /\ Last.op = "step" /\ fatal = "none" /\ Last.val = 105
    /\ pre.a = 127 /\ PreOperand = 127 /\ pre.status.carry
    /\ a = 255 /\ ~status.carry /\ status.overflow /\ status.negative /\ ~status.zero

\* C6: SBC, under each of its opcodes (0xEB included), leaves the A, carry,
\* overflow, zero and negative that ADC leaves for the bitwise complement of
\* the operand (operand XOR 0xFF) and the same carry-in, the operands 0x00
\* and 0x80 included.
C6_SbcIsAdcOfComplement ==
    /\ (Last.op = "step" /\ fatal = "none" /\ Last.val \in SbcOps) =>
          /\ IsSumOf(Cpu, pre, BitXor(PreOperand, 255))
          /\ LET adc_ == add_to_a(pre, 255 - PreOperand)
             IN  a = adc_.a /\ status = adc_.status
    /\ BeforeImmediateZero(235) =>
          \A value \in 0 .. 255 :
              /\ NegMinusOne(value) = 255 - value
              /\ IsSumOf(add_to_a(Cpu, NegMinusOne(value)), Cpu, 255 - value)

\* SBC #$80 through the alias 0xEB on A = 0 with carry set: 0x80, borrow,
\* signed overflow
C6_Witness ==
    /\ Last.op = "step" /\ fatal = "none" /\ Last.val = 235
    /\ pre.a = 0 /\ PreOperand = 128 /\ pre.status.carry
    /\ a = 128 /\ ~status.carry /\ status.overflow /\ status.negative

\* the RAM cell of the stack page under stack pointer `s`
StackCell(r, s) == RamAt(r, 256 + (s % 256))

\* the RAM differs from the RAM before the last operation in the stack page
\* cells under the stack pointers `touched` at most (a cell outside both
\* domains is 0 before and after)
OnlyStackCells(touched) ==
    \A cell \in DOMAIN ram \cup DOMAIN pre.ram :
        (cell \notin {256 + (s % 256) : s \in touched}) =>
            RamAt(ram, cell) = RamAt(pre.ram, cell)

\* C7: push_word followed by pop_word returns the value pushed and restores
\* SP; a push writes at 0x0100+SP and then decrements SP modulo 256, a pop
\* increments SP modulo 256 and then reads 0x0100+SP, a word goes high byte
\* first; so every stack access lies within 0x0100..0x01FF, whatever SP was.
C7_StackRoundTrip ==
    /\ (Before.op = "push_word" /\ Last.op = "pop_word") =>
          Last.ret = Before.val /\ sp = Before.addr
    /\ (Before.op = "push_byte" /\ Last.op = "pop_byte") =>
          Last.ret = Before.val /\ sp = Before.addr
    /\ Last.op = "push_byte" =>
          /\ sp = (pre.sp + 255) % 256
          /\ StackCell(ram, pre.sp) = Last.val
          /\ OnlyStackCells({pre.sp})
    /\ Last.op = "pop_byte" =>
          /\ sp = (pre.sp + 1) % 256
          /\ Last.ret = StackCell(pre.ram, pre.sp + 1)
          /\ ram = pre.ram
    /\ Last.op = "push_word" =>
          /\ sp = (pre.sp + 254) % 256
          /\ StackCell(ram, pre.sp) = Last.val \div 256
          /\ StackCell(ram, pre.sp + 255) = Last.val % 256
          /\ OnlyStackCells({pre.sp, pre.sp + 255})
    /\ Last.op = "pop_word" =>
          /\ sp = (pre.sp + 2) % 256
          /\ Last.ret = StackCell(pre.ram, pre.sp + 1) + 256 * StackCell(pre.ram, pre.sp + 2)
          /\ ram = pre.ram
    /\ Last.op \in {"push_byte", "pop_byte", "push_word", "pop_word"} =>
          /\ fatal = "none"
          /\ sp \in 0 .. 255
          /\ Last.addr = pre.sp

\* 0x1234 pushed at SP = 0x00 (0x12 into 0x0100, 0x34 into 0x01FF, SP 0xFE)
\* and popped again
C7_Witness ==
    /\ Before.op = "push_word" /\ Before.addr = 0 /\ Before.val = 4660
    /\ Last.op = "pop_word" /\ Last.ret = 4660 /\ sp = 0 /\ pre.sp = 254
    /\ RamAt(ram, 256) = 18 /\ RamAt(ram, 511) = 52

\* the pointer word of the indirect instruction at pre.pc
PrePointer == PreWord(pre.pc + 1)

\* the last operation resolved the operand of a JMP (P)
ResolvedIndirect == Last.op = "get_operand_address" /\ Last.val = 108

\* the rule of C8: low byte from P; high byte from (P AND 0xFF00) when P ends
\* in 0xFF, from P + 1 otherwise
C8_Rule ==
    ResolvedIndirect =>
        IF PrePointer % 256 = 255
        THEN Last.ret = PreByte(PrePointer) + 256 * PreByte(PrePointer - 255)
        ELSE Last.ret = PreByte(PrePointer) + 256 * PreByte(PrePointer + 1)

\* the bytes of the example of C8 around a pointer that ends in 0xFF
C8_ExampleBytes ==
    /\ ResolvedIndirect
    /\ PrePointer % 256 = 255
    /\ PreByte(PrePointer) = 64
    /\ PreByte(PrePointer + 1) = 80
    /\ PreByte(PrePointer - 255) = 128

\* C8 (as amended): indirect-mode resolution of a pointer word P takes the
\* low byte from P and the high byte from (P AND 0xFF00) when P ends in 0xFF,
\* and is the little-endian word at P and P+1 otherwise; with 0x40 at P, 0x50
\* at P+1 and 0x80 at the page start it yields 0x8040 (0x4080 for 0x80 at P
\* and 0x40 at the page start), and for P = 0x30FF, in the PPU window that
\* reads 0, it yields 0x0000.
C8_IndirectResolution ==
    /\ C8_Rule
    /\ C8_ExampleBytes => Last.ret = 32832
    /\ (ResolvedIndirect /\ PrePointer % 256 = 255 /\ PreByte(PrePointer) = 128
            /\ PreByte(PrePointer - 255) = 64) => Last.ret = 16512
    /\ (ResolvedIndirect /\ PrePointer = 12543) => Last.ret = 0

\* JMP ($02FF) with 0x40 at 0x02FF, 0x50 at 0x0300, 0x80 at 0x0200
C8_Witness ==
    /\ C8_ExampleBytes
    /\ PrePointer = 767
    /\ Last.ret = 32832

\* C8 (as stated): the rule, and for the bytes of the example (0x40 at the
\* pointer, 0x50 after it, 0x80 at the page start) the address 0x4080.
C8_AsStated ==
    /\ C8_Rule
    /\ C8_ExampleBytes => Last.ret = 16512

\* the stubbed PPU window 0x2000..0x3FFF and the unmapped range 0x4000..0x7FFF
InIoWindow(addr) == addr \in 8192 .. 32767

\* C11: for every address in 0x2000..0x7FFF read_byte returns 0 and
\* write_byte does nothing: neither is fatal, RAM, PRG-ROM and the CPU are
\* as before the call, and a value written there is not read back.
C11_IoWindowInert ==
    /\ (Last.op \in {"read_byte", "write_byte"} /\ InIoWindow(Last.addr)) =>
          /\ fatal = "none"
          /\ Cpu = pre
          /\ prg_rom \in Carts
          /\ Last.op = "read_byte" => Last.ret = 0
    /\ (Before.op = "write_byte" /\ Last.op = "read_byte"
            /\ InIoWindow(Last.addr) /\ Before.addr = Last.addr) => Last.ret = 0
    /\ Last.op = "new" =>
          \A addr \in 8192 .. 32767 :
              /\ BusRead(ram, prg_rom, addr) = 0
              /\ \A value \in BusValues : write_byte(Cpu, addr, value) = Cpu

\* 0xA5 written to 0x2000 and 0 read back there, with 0xA5 in RAM cell 0
C11_Witness ==
    /\ Before.op = "write_byte" /\ Before.addr = 8192 /\ Before.val = 165
    /\ Last.op = "read_byte" /\ Last.addr = 8192 /\ Last.ret = 0
    /\ RamAt(ram, 0) = 165 /\ fatal = "none"

\* the address the instruction at pc is about to write, when it is one of
\* the memory-writing opcodes
WritesRom ==
    /\ read_byte(Cpu, pc) \in StoreOps \cup ModifyOps
    /\ get_operand_address(Cpu, InsMode(read_byte(Cpu, pc)), Wrap16(pc + 1)) >= 32768

\* C12: no step(), reset() or host write_byte changes a byte of PRG-ROM; a
\* write_byte to an address in 0x8000..0xFFFF, by the host or by a store or
\* read-modify-write instruction, ends in the fatal state, ROM and the rest
\* of the machine left as they were.
C12_RomImmutable ==
    [][/\ prg_rom' = prg_rom
       /\ (log'[2].op = "write_byte" /\ log'[2].addr >= 32768) =>
              fatal' = "rom_write" /\ ram' = ram
       /\ (log'[2].op = "step" /\ WritesRom) =>
              fatal' = "rom_write" /\ ram' = ram
       /\ fatal' = "rom_write" =>
              \/ (log'[2].op = "write_byte" /\ log'[2].addr >= 32768)
              \/ (log'[2].op = "step" /\ WritesRom)]_vars

\* STA $80FF stepped, and aborted with ROM byte 0x77 still at 0x80FF
C12_Witness ==
    /\ Last.op = "step" /\ Last.val = 141 /\ fatal = "rom_write"
    /\ BusRead(ram, prg_rom, 33023) = 119 /\ a = 90

\* C13: run_with_callback calls step() only while the running flag is true,
\* invokes the observer exactly once immediately before each step, and
\* returns right after the step that executes BRK, which clears running and
\* sets b1; the observer is never invoked once running is false, a call with
\* running false returns without an observer call or a step, and a program
\* that does not execute BRK never makes it return.
C13_RunLoop ==
    /\ [](run_at = "callback" => running)
    /\ [](run_at = "step" => (running /\ Last.op = "callback"))
    /\ []((run_at = "test" /\ Last.op = "step") => Before.op = "callback")
    /\ []((Last.op = "callback" /\ Before.op = "step") => (Before.val # 0 /\ running))
    /\ []((run_at \in {"test", "returned"} /\ Last.op = "step" /\ Last.val = 0 /\ fatal = "none")
            => (~running /\ status.b1))
    /\ [](run_at = "returned" =>
            /\ ~running
            /\ Last.op \in {"run", "step"}
            /\ Last.op = "step" => Last.val = 0)
    /\ [][(run_at = "test" /\ ~running) => (run_at' = "returned" /\ UNCHANGED <<log, pre>>)]_vars
    /\ (run_at = "test" /\ ~running) ~> (run_at = "returned")
    /\ (run_at = "test" /\ running /\ fatal = "none") ~> (run_at = "step")

\* run() has returned after the BRK that ends the golden program
C13_Witness ==
    /\ run_at = "returned" /\ Last.op = "step" /\ Last.val = 0 /\ Before.op = "callback"
    /\ ~running /\ status.b1 /\ x = 5 /\ a = 1


\* C14: every step() that returns, the one that executes BRK included, adds
\* the base cycle count of the fetched opcode's table entry to the cycle
\* counter; no operation makes the counter smaller except reset(), which
\* sets it to 0.
C14_CyclesMonotonic ==
    /\ []((Last.op = "step" /\ fatal = "none")
            => cycles = pre.cycles + InsCycles(Last.val))
    /\ [][/\ cycles' >= cycles \/ (log'[2].op = "reset" /\ cycles' = 0)
          /\ (log'[2].op = "step" /\ fatal' = "none")
                => cycles' = cycles + InsCycles(log'[2].val)]_vars

\* a BRK has been stepped after an earlier instruction and counted 7 cycles
C14_Witness ==
    /\ Last.op = "step" /\ Last.val = \h00 /\ Before.op = "step"
    /\ pre.cycles > 0 /\ cycles = pre.cycles + 7 /\ fatal = "none"

\* bit k of a byte, by division
BitOf(v, k) == (v \div (2 ^ k)) % 2 = 1

\* C15: for each of the 256 bytes, the Status made from the byte has carry,
\* zero, interrupt-disable, decimal, b1, b2, overflow and negative equal to
\* bits 0 to 7 of the byte, and the byte made from that Status is the byte
\* again.
C15_StatusRoundTrip ==
    /\ Last.op = "status_from" =>
        /\ status.carry = BitOf(Last.val, 0)
        /\ status.zero = BitOf(Last.val, 1)
        /\ status.disable_interrupts = BitOf(Last.val, 2)
        /\ status.decimal = BitOf(Last.val, 3)
        /\ status.b1 = BitOf(Last.val, 4)
        /\ status.b2 = BitOf(Last.val, 5)
        /\ status.overflow = BitOf(Last.val, 6)
        /\ status.negative = BitOf(Last.val, 7)
    /\ (Last.op = "status_into" /\ Before.op = "status_from") =>
            Last.ret = Before.val
    /\ Last.op = "status_into" =>
        /\ BitOf(Last.ret, 0) = status.carry
        /\ BitOf(Last.ret, 1) = status.zero
        /\ BitOf(Last.ret, 2) = status.disable_interrupts
        /\ BitOf(Last.ret, 3) = status.decimal
        /\ BitOf(Last.ret, 4) = status.b1
        /\ BitOf(Last.ret, 5) = status.b2
        /\ BitOf(Last.ret, 6) = status.overflow
        /\ BitOf(Last.ret, 7) = status.negative

\* 0x5A has gone to a Status (zero, decimal, b1, overflow) and back
C15_Witness ==
    /\ Last.op = "status_into" /\ Before.op = "status_from"
    /\ Before.val = \h5A /\ Last.ret = \h5A
    /\ status.b1 /\ ~status.b2 /\ status.overflow /\ ~status.negative

\* the little-endian word in the PRG bytes at offsets off and off + 1
PrgWord(off) == PrgAt(prg_rom, off) + 256 * PrgAt(prg_rom, off + 1)

\* what the instruction at PRG offset `off`, entered at `entry`, leaves
BootEffect(entry, off) ==
    LET opcode == PrgAt(prg_rom, off)
    IN  CASE opcode = \hA9 ->
                /\ a = PrgAt(prg_rom, off + 1) /\ x = 0 /\ pc = entry + 2
                /\ cycles = 2 /\ running = pre.running /\ fatal = "none"
          [] opcode = \hA2 ->
                /\ x = PrgAt(prg_rom, off + 1) /\ a = 0 /\ pc = entry + 2
                /\ cycles = 2 /\ running = pre.running /\ fatal = "none"
          [] opcode = \hE8 ->
                /\ x = 1 /\ a = 0 /\ pc = entry + 1
                /\ cycles = 2 /\ running = pre.running /\ fatal = "none"
          [] opcode = \hEA ->
                /\ x = 0 /\ a = 0 /\ pc = entry + 1
                /\ cycles = 2 /\ running = pre.running /\ fatal = "none"
          [] opcode = \h00 ->
                /\ x = 0 /\ a = 0 /\ pc = entry + 1
                /\ cycles = 7 /\ ~running /\ status.b1 /\ fatal = "none"
          [] OTHER -> fatal = "unimplemented"

\* reset() takes PC from the word at PRG offset `off`, and the step after it
\* runs the instruction that word points at
BootRule(off) ==
    /\ (Last.op \in {"new", "reset"} /\ fatal = "none") => pc = PrgWord(off)
    /\ (Last.op = "step" /\ Before.op \in {"new", "reset"}) =>
            /\ Last.addr = PrgWord(off)
            /\ Last.val = PrgAt(prg_rom, PrgWord(off) % PRG_ROM_PAGE_SIZE)
            /\ BootEffect(PrgWord(off), PrgWord(off) % PRG_ROM_PAGE_SIZE)

\* C16: with a cartridge of one 16KB PRG page, reset() sets PC to the
\* little-endian word held in the page's bytes 0x3FFC/0x3FFD (CPU addresses
\* 0xFFFC/0xFFFD), and the first step() after it fetches the opcode stored at
\* that PC and executes it.
C16_BootFromResetVector == BootRule(\h3FFC)

\* after a reset, LDA #$42 at offset 0 has run through the mirror at 0xC000
\* while the page's last two bytes point elsewhere
C16_Witness ==
    /\ Last.op = "step" /\ Before.op = "reset"
    /\ PrgWord(\h3FFC) = \hC000 /\ PrgWord(\h3FFE) = \h8010
    /\ a = \h42 /\ pc = \hC002

\* C16 as stated: the vector is the word in the page's last two bytes
\* (offsets 0x3FFE/0x3FFF)
C16_AsStated == BootRule(\h3FFE)

\* the buffer has four bytes and they are the iNES tag
HasTag(raw) ==
    /\ raw.len >= 4
    /\ <<RawAt(raw, 0), RawAt(raw, 1), RawAt(raw, 2), RawAt(raw, 3)>>
            = <<\h4E, \h45, \h53, \h1A>>

\* C17: Rom::new returns Err(InvalidHeader), and never Ok, for every buffer
\* whose first four bytes are not 4E 45 53 1A.
C17_BadTagIsInvalidHeader ==
    (Last.op = "rom_new" /\ ~HasTag(loaded.raw)) =>
        loaded.result = RomErr("InvalidHeader")

\* bits 2 and 3 of byte 7
VersionBits(raw) == (RawAt(raw, 7) \div 4) % 4

\* C18: Rom::new returns Err(UnsupportedVersion) for every buffer with the
\* tag whose byte 7 has bit 2 or bit 3 set, the NES 2.0 marker (bit 3 set,
\* bit 2 clear) among them, and accepts a header only when both are clear.
C18_VersionBitsRejected ==
    /\ (Last.op = "rom_new" /\ HasTag(loaded.raw) /\ loaded.raw.len >= 8
            /\ VersionBits(loaded.raw) # 0)
          => loaded.result = RomErr("UnsupportedVersion")
    /\ (Last.op = "rom_new" /\ loaded.result.kind = "Ok")
          => VersionBits(loaded.raw) = 0

\* the length the header declares: header, trainer, PRG pages, CHR pages
DeclaredLen(raw) ==
    16 + (IF (RawAt(raw, 6) \div 4) % 2 = 1 THEN 512 ELSE 0)
       + RawAt(raw, 4) * 16384 + RawAt(raw, 5) * 8192

\* C19: for every buffer with the tag and the baseline version that is
\* shorter than its header declares, Rom::new returns Err(InvalidHeader) as
\* a value: it does not abort, and no cartridge comes out.
C19_TruncatedIsInvalidHeader ==
    (Last.op = "rom_new" /\ HasTag(loaded.raw) /\ loaded.raw.len >= 8
        /\ VersionBits(loaded.raw) = 0
        /\ loaded.raw.len < DeclaredLen(loaded.raw))
      => (loaded.result = RomErr("InvalidHeader") /\ fatal = "none")

\* the 151 opcodes of the documented 6502 instruction set
OfficialOps ==
    {\h69, \h65, \h75, \h6D, \h7D, \h79, \h61, \h71,
     \h29, \h25, \h35, \h2D, \h3D, \h39, \h21, \h31,
     \h0A, \h06, \h16, \h0E, \h1E,
     \h90, \hB0, \hF0, \h30, \hD0, \h10, \h50, \h70,
     \h24, \h2C, \h00,
     \h18, \hD8, \h58, \hB8, \h38, \hF8, \h78,
     \hC9, \hC5, \hD5, \hCD, \hDD, \hD9, \hC1, \hD1,
     \hE0, \hE4, \hEC, \hC0, \hC4, \hCC,
     \hC6, \hD6, \hCE, \hDE, \hCA, \h88,
     \h49, \h45, \h55, \h4D, \h5D, \h59, \h41, \h51,
     \hE6, \hF6, \hEE, \hFE, \hE8, \hC8,
     \h4C, \h6C, \h20, \h40, \h60,
     \hA9, \hA5, \hB5, \hAD, \hBD, \hB9, \hA1, \hB1,
     \hA2, \hA6, \hB6, \hAE, \hBE, \hA0, \hA4, \hB4, \hAC, \hBC,
     \h4A, \h46, \h56, \h4E, \h5E, \hEA,
     \h09, \h05, \h15, \h0D, \h1D, \h19, \h01, \h11,
     \h48, \h08, \h68, \h28,
     \h2A, \h26, \h36, \h2E, \h3E,
     \h6A, \h66, \h76, \h6E, \h7E,
     \hE9, \hE5, \hF5, \hED, \hFD, \hF9, \hE1, \hF1,
     \h85, \h95, \h8D, \h9D, \h99, \h81, \h91,
     \h86, \h96, \h8E, \h84, \h94, \h8C,
     \hAA, \hA8, \hBA, \h8A, \h9A, \h98}

\* SLO, RLA, SRE, RRA, LAX, SAX, DCP, ISB, the NOP variants and SBC 0xEB
ListedUnofficialOps ==
    {\h07, \h17, \h0F, \h1F, \h1B, \h03, \h13,
     \h27, \h37, \h2F, \h3F, \h3B, \h23, \h33,
     \h47, \h57, \h4F, \h5F, \h5B, \h43, \h53,
     \h67, \h77, \h6F, \h7F, \h7B, \h63, \h73,
     \hA7, \hB7, \hAF, \hBF, \hA3, \hB3,
     \h87, \h97, \h8F, \h83,
     \hC7, \hD7, \hCF, \hDF, \hDB, \hC3, \hD3,
     \hE7, \hF7, \hEF, \hFF, \hFB, \hE3, \hF3,
     \h1A, \h3A, \h5A, \h7A, \hDA, \hFA, \h80, \h82, \h89, \hC2, \hE2,
     \h04, \h44, \h64, \h14, \h34, \h54, \h74, \hD4, \hF4,
     \h0C, \h1C, \h3C, \h5C, \h7C, \hDC, \hFC,
     \hEB}

\* C20: a step() on an opcode byte without a handler ends in the fatal
\* state of the unimplemented opcode (when the step gets as far as the
\* match), and no official opcode and no listed unofficial opcode ever does.
C20_UnimplementedOnlyUndocumented ==
    Last.op = "step" =>
        /\ Last.val \in OfficialOps \cup ListedUnofficialOps
              => fatal # "unimplemented"
        /\ Last.val \notin OfficialOps \cup ListedUnofficialOps
              => \/ fatal = "unimplemented"
                 \/ fatal = "overflow" /\ overflow_checks /\ pre.pc = \hFFFF

\* the SBC alias 0xEB has been executed in ROM
C20_Witness ==
    /\ Last.op = "step" /\ Last.val = \hEB /\ fatal = "none"
    /\ pre.pc = \h8000 /\ pc = \h8002 /\ a # pre.a

\* the offset byte as the number in -128..127 it stands for
SignedOffset(byte) == IF byte < 128 THEN byte ELSE byte - 256

\* the relative operand at `cursor` resolves `extra` past cursor + offset
RelativeRule(extra) ==
    (Last.op = "get_operand_address" /\ InsMode(Last.val) = "Relative") =>
        Last.ret = (Last.addr + extra + SignedOffset(PreByte(Last.addr)) + 65536)
                        % 65536

\* C21: get_operand_address(Relative, cursor), with cursor the address of
\* the offset byte, returns (cursor + signed 8-bit offset) modulo 2^16, for
\* every offset in -128..127: the offset is added to the address of the
\* offset byte.
C21_RelativeResolution == RelativeRule(0)

\* offset -128 at cursor 0x0001 has wrapped below 0 to 0xFF81
C21_Witness ==
    /\ Last.op = "get_operand_address" /\ InsMode(Last.val) = "Relative"
    /\ Last.addr = \h0001 /\ PreByte(\h0001) = \h80 /\ Last.ret = \hFF81

\* C21 as stated: the offset is added to the address after the offset byte
C21_AsStated == RelativeRule(1)

\* the 8-bit result of the instruction stepped last: the register it
\* targets, or the memory cell it has rewritten
FlagResult ==
    LET opcode == Last.val
    IN  IF opcode \in {\hE6, \hF6, \hEE, \hFE, \hC6, \hD6, \hCE, \hDE,
                       \h06, \h16, \h0E, \h1E, \h46, \h56, \h4E, \h5E,
                       \h26, \h36, \h2E, \h3E, \h66, \h76, \h6E, \h7E}
        THEN BusRead(ram, prg_rom,
                     get_operand_address(pre, InsMode(opcode), (pre.pc + 1) % 65536))
        ELSE IF opcode \in {\hA2, \hA6, \hB6, \hAE, \hBE, \hAA, \hBA, \hE8, \hCA}
        THEN x
        ELSE IF opcode \in {\hA0, \hA4, \hB4, \hAC, \hBC, \hA8, \hC8, \h88}
        THEN y
        ELSE a

\* C22: after every official load, transfer (TXS apart), increment,
\* decrement, logical, shift, rotate and arithmetic instruction, zero is
\* true exactly when the 8-bit result is 0 and negative exactly when bit 7
\* of the result is set, the memory forms of ROL and ROR included.
C22_ZeroNegativeFromResult ==
    (Last.op = "step" /\ fatal = "none" /\ Last.val \in FlagOps) =>
        /\ status.zero = (FlagResult = 0)
        /\ status.negative = (FlagResult >= 128)

\* the CPU as a handler of the instruction stepped last found it: the
\* state before, with PC on the operand
PreAtCursor == [pre EXCEPT !.pc = (pre.pc + 1) % 65536]

\* A, memory and the flags are those of CPU `c`
SameOutcome(c) ==
    /\ a = c.a
    /\ ram = c.ram
    /\ status.carry = c.status.carry
    /\ status.zero = c.status.zero
    /\ status.negative = c.status.negative
    /\ status.overflow = c.status.overflow

ZeroPageCell(k) == RamAt(pre.ram, k % 256)

\* C24: IndirectX takes its 16-bit address from the zero-page cells
\* (operand + X) mod 256 and (operand + X + 1) mod 256; IndirectY takes its
\* base from the cells operand and (operand + 1) mod 256 and then adds Y
\* modulo 2^16; ZeroPageX and ZeroPageY resolve to (operand + X) mod 256 and
\* (operand + Y) mod 256.  No pointer byte comes from outside the zero page.
C24_ZeroPagePointers ==
    Last.op = "get_operand_address" =>
        LET mode    == InsMode(Last.val)
            operand == PreByte(Last.addr)
        IN  /\ mode = "IndirectX" =>
                    Last.ret = ZeroPageCell(operand + pre.x)
                                + 256 * ZeroPageCell(operand + pre.x + 1)
            /\ mode = "IndirectY" =>
                    Last.ret = (ZeroPageCell(operand) + 256 * ZeroPageCell(operand + 1)
                                    + pre.y) % 65536
            /\ mode = "ZeroPageX" => Last.ret = (operand + pre.x) % 256
            /\ mode = "ZeroPageY" => Last.ret = (operand + pre.y) % 256

\* LDA ($FF),Y with Y = 2: the base 0x34DE comes from cells 0xFF and 0x00,
\* not from 0x0100
C24_Witness ==
    /\ Last.op = "get_operand_address" /\ Last.val = \hB1
    /\ PreByte(Last.addr) = \hFF /\ pre.y = 2 /\ Last.ret = \h34E0

\* C25: with a cartridge that Rom::new accepted, whatever its PRG page
\* count, no read of the bus fails: not the reset vector's in Cpu::new and
\* reset, not an instruction fetch, not a read_byte of any address.
C25_ReadsNeverFail ==
    loaded.result.kind = "Ok" => fatal # "rom_index"

\* the address of the JSR of the program
CallSite == CHOOSE p \in CallBases : PreByte(p) = \h20

\* what a JSR at pre.pc leaves on the stack and in SP
CallFrame ==
    LET ret == (pre.pc + 2) % 65536
    IN  /\ sp = (pre.sp + 254) % 256
        /\ RamAt(ram, STACK + pre.sp) = ret \div 256
        /\ RamAt(ram, STACK + ((pre.sp + 255) % 256)) = ret % 256

\* C26: a JSR at p pushes p + 2, high byte first, and sets PC to its target;
\* the RTS that ends the subroutine, the stack being balanced back to that
\* frame, sets PC to p + 3 and takes SP back up by the two bytes of the
\* frame, for every p and every SP, across the wrap of SP included.
C26_CallRoundTrip ==
    (Last.op = "step" /\ fatal = "none") =>
        /\ Last.val = \h20 => (CallFrame /\ pc = PreWord(pre.pc + 1))
        /\ Last.val = \h60 =>
                (pc = (CallSite + 3) % 65536 /\ sp = (pre.sp + 2) % 256)

\* C27: reset() sets A, X, Y, SP, status, PC and the cycle counter and
\* leaves the running flag and the RAM as they were; so a run() that follows
\* a reset() of a stopped CPU returns without a callback or a step, the CPU
\* untouched, and the flag only becomes true again when the host sets it.
C27_ResetKeepsRunningAndRam ==
    /\ []((Last.op = "reset" /\ fatal = "none") =>
            /\ running = pre.running /\ ram = pre.ram
            /\ a = 0 /\ x = 0 /\ y = 0 /\ sp = \hFD /\ cycles = 0
            /\ StatusToU8(status) = 36
            /\ pc = PreWord(RESET_VECTOR))
    /\ []((Last.op = "run" /\ Before.op = "reset" /\ ~running) =>
            (run_at \in {"test", "returned"} /\ Cpu = pre))
    /\ [][(~running /\ running') => log'[2].op = "set_running"]_vars

\* run() has returned at once after the reset that followed the BRK of the
\* golden program: RAM still holds what the program stored
C27_Witness ==
    /\ run_at = "returned" /\ Last.op = "run" /\ Before.op = "reset"
    /\ ~running /\ ~status.b1 /\ cycles = 0 /\ pc = \hC000
    /\ RamAt(ram, \h0200) = 1

\* the six flags of status s are the bits 0, 1, 2, 3, 6 and 7 of v
SixFlagsFrom(s, v) ==
    /\ s.carry = BitOf(v, 0) /\ s.zero = BitOf(v, 1)
    /\ s.disable_interrupts = BitOf(v, 2) /\ s.decimal = BitOf(v, 3)
    /\ s.overflow = BitOf(v, 6) /\ s.negative = BitOf(v, 7)

SameSixFlags(s, t) ==
    /\ s.carry = t.carry /\ s.zero = t.zero
    /\ s.disable_interrupts = t.disable_interrupts /\ s.decimal = t.decimal
    /\ s.overflow = t.overflow /\ s.negative = t.negative

\* C28: PHP pushes the status byte with bits 4 and 5 set and leaves the
\* CPU's status as it was; PLP and RTI take the six flags from the popped
\* byte and leave b1 = false and b2 = true; so a PLP right after a PHP
\* leaves the six flags and SP as they were before the PHP.
C28_StatusOnStack ==
    (Last.op = "step" /\ fatal = "none") =>
        /\ Last.val = \h08 =>
            LET pushed == RamAt(ram, STACK + pre.sp)
            IN  /\ BitOf(pushed, 4) /\ BitOf(pushed, 5)
                /\ SixFlagsFrom(pre.status, pushed)
                /\ status = pre.status
                /\ sp = (pre.sp + 255) % 256
        /\ Last.val \in {\h28, \h40} =>
            /\ SixFlagsFrom(status, RamAt(pre.ram, STACK + ((pre.sp + 1) % 256)))
            /\ ~status.b1 /\ status.b2
        /\ (Last.val = \h28 /\ Before.op = "step" /\ Before.val = \h08) =>
            /\ SameSixFlags(status, pre.status)
            /\ sp = (pre.sp + 1) % 256

\* PLP after PHP from the status 0xDB at SP = 0: the byte 0xFB went through
\* cell 0x0100, the six flags are back, b1 is cleared and b2 set
C28_Witness ==
    /\ Last.op = "step" /\ Last.val = \h28 /\ Before.op = "step" /\ Before.val = \h08
    /\ RamAt(ram, \h0100) = \hFB /\ sp = 0 /\ StatusToU8(status) = \hEB
    /\ StatusToU8(pre.status) = \hDB
===========================================================================
